---- MODULE Spec2Model ----
(***************************************************************************)
(* A model of dart_rs, the bridge between native Rust code and the Dart    *)
(* VM: handle classification (dart_handle.rs), the CObject value model     *)
(* and external typed data (dart_cobject.rs), ports (dart_handle.rs), the  *)
(* function register and the dispatch wrappers (lib.rs).                   *)
(*                                                                         *)
(* Each component has its own specification over its own variables; the    *)
(* variables of the other components stay at their initial values.         *)
(***************************************************************************)
EXTENDS Integers, Sequences, FiniteSets, TLC

(***************************************************************************)
(* Bounds of the model.                                                    *)
(***************************************************************************)
\* Raw handle values the host hands out are 1..MaxHandleId; 0 is the null pointer.
MaxHandleId == 4
\* Port ids the host hands out are 1..MaxPortId.
MaxPortId == 3
\* At most MaxAdds add_function calls are made on the register.
MaxAdds == 3
\* A CObject::String holds at most MaxStrLen bytes.
MaxStrLen == 2
\* A CObject::Array holds at most MaxArrayLen elements.
MaxArrayLen == 2
\* A panic message holds at most MaxMsgLen bytes.
MaxMsgLen == 2
\* The Registerers handed to init add at most MaxEntries functions in all.
MaxEntries == 2
\* At most MaxHolders native values (TypedDataArray, CObject, Dart_CObject
\* record) hold the external buffer's descriptor at one time.
MaxHolders == 2
\* The host accepts at most MaxPosts posts of the external buffer.
MaxPosts == 2
\* A Dart list has at most MaxListLen elements.
MaxListLen == 3
\* The operands of Integer arithmetic lie in -MaxOperand..MaxOperand.
MaxOperand == 3

(***************************************************************************)
(* Program constants.                                                      *)
(***************************************************************************)
\* ffi::ILLEGAL_PORT, the reserved port id.
ILLEGAL_PORT == 0

VARIABLES
    handle_ret,     \* dart_handle.rs: what the last handle operation produced
    native_ports,   \* host: port id -> the native handler registered for it
    ports,          \* the Port values constructed so far
    port_ret,       \* what the last port operation produced
    leaked,         \* lib.rs: the name storage add_function has leaked, by address
    REGISTER,       \* lib.rs: the FunctionRegister behind the global RwLock
    registered,     \* the add_function calls that have completed, in order
    reg_ret,        \* what the last register operation produced
    held,           \* host: the pointer resolve_function last returned
    init_pc,        \* lib.rs: where the call of init stands
    init_arg,       \* the parent_library handle init was called with
    init_regs,      \* the entries the Registerers of that call add, in order
    init_ret,       \* the handle init returns
    lock,           \* the RwLock around REGISTER
    resolver,       \* host: the native resolver set for the library
    half,           \* whether add_function stands between its two inserts
    observed,       \* what the last concurrent reader found in the registry
    co_self,        \* dart_cobject.rs: the CObject a conversion started from
    co_heap,        \* the heap cells the conversions have leaked, by address
    co_object,      \* the ffi::Dart_CObject record produced for the host
    co_back,        \* the CObject that CObject::from built from the record
    co_pc,          \* how far the value has travelled
    co_lock,        \* the record of the CObjectLock that as_non_leak returned
    process,        \* lib.rs: whether the process still runs
    disp_ret,       \* what the last dispatched call did
    async_ret,      \* lib.rs: what the last catch_panic_hook_async call did
    invoked,        \* host: the handler the last message to a SendPort reached
    buf_mem,        \* dart_cobject.rs: the buffer's data block and peer box
    buf_type,       \* T::TYPE of the TypedDataArray::create call
    buf_native,     \* how many native values of each form hold the descriptor
    buf_host,       \* host objects alive that carry the finalizer and peer
    buf_posted,     \* posts of the buffer the host has accepted
    buf_finalized,  \* how many times the host has called the finalizer
    buf_faults,     \* memory errors so far
    buf_op,         \* the last operation on the buffer
    in_progress,    \* host: the handler invocations it has started, by message
    td,             \* dart_cobject.rs: the typed-data value followed, in its current form
    td_lock,        \* the record as_non_leak made of it, if any
    td_made,        \* the variant the value was constructed with
    td_op,          \* the last operation on the value
    fin_mem,        \* the two allocations of an external buffer's constructor
    fin_ctor,       \* the constructor that made them and its arguments
    fin_handle,     \* host: what the constructor got back for the buffer
    fin_runs,       \* host: how many times it has run the buffer's finalizer
    lv_list,        \* dart_types/list.rs: host: the elements of the Dart list
    lv_view,        \* the ListView or ListViewMut over the list, if any
    lv_touched,     \* the view indices index_mut has handed out
    lv_writes,      \* the set_at calls made while the view was dropped
    lv_op,          \* the last list operation and what it did
    int_lhs,        \* dart_types/integer.rs: the left operand, an Integer or an i64
    int_rhs,        \* the right operand
    int_op          \* the last arithmetic operation and its result

handle_vars == <<handle_ret>>
port_vars == <<native_ports, ports, port_ret>>
reg_vars == <<leaked, REGISTER, registered, reg_ret, held>>
co_vars == <<co_self, co_heap, co_object, co_back, co_pc, co_lock>>
disp_vars == <<process, disp_ret>>
async_vars == <<async_ret, invoked>>
conc_vars == <<half, observed>>
init_vars == <<init_pc, init_arg, init_regs, init_ret, lock, resolver>>
buf_vars == <<buf_mem, buf_type, buf_native, buf_host, buf_posted,
              buf_finalized, buf_faults, buf_op>>

hand_vars == <<in_progress>>

td_vars == <<td, td_lock, td_made, td_op>>

fin_vars == <<fin_mem, fin_ctor, fin_handle, fin_runs>>

list_vars == <<lv_list, lv_view, lv_touched, lv_writes, lv_op>>

int_vars == <<int_lhs, int_rhs, int_op>>

vars == <<handle_ret, native_ports, ports, port_ret,
          leaked, REGISTER, registered, reg_ret, held,
          init_pc, init_arg, init_regs, init_ret, lock, resolver,
          half, observed,
          co_self, co_heap, co_object, co_back, co_pc, co_lock,
          process, disp_ret, async_ret, invoked,
          buf_mem, buf_type, buf_native, buf_host, buf_posted,
          buf_finalized, buf_faults, buf_op,
          in_progress,
          td, td_lock, td_made, td_op,
          fin_mem, fin_ctor, fin_handle, fin_runs,
          lv_list, lv_view, lv_touched, lv_writes, lv_op,
          int_lhs, int_rhs, int_op>>

\* What a step of one component leaves alone.
HandleFrame ==
    UNCHANGED <<port_vars, reg_vars, init_vars, conc_vars, co_vars, disp_vars, async_vars, buf_vars, hand_vars, td_vars, fin_vars, list_vars, int_vars>>
PortFrame ==
    UNCHANGED <<handle_vars, reg_vars, init_vars, conc_vars, co_vars, disp_vars, async_vars, buf_vars, hand_vars, td_vars, fin_vars, list_vars, int_vars>>
RegFrame ==
    UNCHANGED <<handle_vars, port_vars, init_vars, conc_vars, co_vars, disp_vars, async_vars, buf_vars, hand_vars, td_vars, fin_vars, list_vars, int_vars>>
InitFrame ==
    UNCHANGED <<handle_vars, port_vars, conc_vars, co_vars, disp_vars, async_vars, buf_vars, hand_vars, td_vars, fin_vars, list_vars, int_vars>>
CoFrame ==
    UNCHANGED <<handle_vars, port_vars, reg_vars, init_vars, conc_vars, disp_vars, async_vars, buf_vars, hand_vars, td_vars, fin_vars, list_vars, int_vars>>
DispFrame ==
    UNCHANGED <<handle_vars, port_vars, reg_vars, init_vars, conc_vars, co_vars, async_vars, buf_vars, hand_vars, td_vars, fin_vars, list_vars, int_vars>>
AsyncFrame ==
    UNCHANGED <<handle_vars, reg_vars, init_vars, conc_vars, co_vars, disp_vars, buf_vars, hand_vars, td_vars, fin_vars, list_vars, int_vars>>
ConcFrame ==
    UNCHANGED <<handle_vars, port_vars, co_vars, disp_vars, async_vars, buf_vars, hand_vars, td_vars, fin_vars, list_vars, int_vars>>
BufFrame ==
    UNCHANGED <<handle_vars, port_vars, reg_vars, init_vars, conc_vars, co_vars, disp_vars, async_vars, hand_vars, td_vars, fin_vars, list_vars, int_vars>>
HandlerFrame ==
    UNCHANGED <<handle_vars, reg_vars, co_vars, async_vars, conc_vars, init_vars, buf_vars, td_vars, fin_vars, list_vars, int_vars>>
TdFrame ==
    UNCHANGED <<handle_vars, port_vars, reg_vars, init_vars, conc_vars, co_vars, disp_vars, async_vars, buf_vars, hand_vars, fin_vars, list_vars, int_vars>>
FinFrame ==
    UNCHANGED <<handle_vars, port_vars, reg_vars, co_vars, disp_vars, async_vars, conc_vars, init_vars, buf_vars, hand_vars, td_vars, list_vars, int_vars>>
ListFrame ==
    UNCHANGED <<handle_vars, port_vars, reg_vars, co_vars, disp_vars, async_vars, conc_vars, init_vars, buf_vars, hand_vars, td_vars, fin_vars, int_vars>>
IntFrame ==
    UNCHANGED <<handle_vars, port_vars, reg_vars, co_vars, disp_vars, async_vars, conc_vars, init_vars, buf_vars, hand_vars, td_vars, fin_vars, list_vars>>

None == [tag |-> "None"]
Some(x) == [tag |-> "Some", value |-> x]

(***************************************************************************)
(* Helpers on sequences.                                                   *)
(***************************************************************************)
Range(s) == {s[i] : i \in 1..Len(s)}

RECURSIVE SeqsUpTo(_, _)
\* The sequences over S of length at most n.
SeqsUpTo(S, n) ==
    IF n = 0 THEN {<<>>}
    ELSE LET shorter == SeqsUpTo(S, n - 1)
         IN  shorter \cup {Append(q, x) : q \in shorter, x \in S}

(***************************************************************************)
(* dart_handle.rs: UnverifiedDartHandle and Error                          *)
(*                                                                         *)
(* A raw Dart_Handle is a pointer into the host; what the host answers     *)
(* about it (Dart_IsError and the four Dart_Is...Error predicates) is the  *)
(* host's to decide, so a raw handle carries those answers.  raw = 0 is    *)
(* the null pointer.                                                       *)
(***************************************************************************)
NullRaw == [raw |-> 0, isError |-> FALSE, isUnhandledException |-> FALSE,
            isApi |-> FALSE, isCompilation |-> FALSE, isFatal |-> FALSE]

RawHandles ==
    {NullRaw} \cup
    [raw : 1..MaxHandleId, isError : BOOLEAN, isUnhandledException : BOOLEAN,
     isApi : BOOLEAN, isCompilation : BOOLEAN, isFatal : BOOLEAN]

\* The order in which get_error asks the host.
ErrorKinds == <<"UnhandledException", "Api", "Compilation", "Fatal">>

\* ffi::Dart_IsUnhandledExceptionError, Dart_IsApiError, ... on a raw handle.
Dart_IsKind(h, kind) ==
    CASE kind = "UnhandledException" -> h.isUnhandledException
      [] kind = "Api"                -> h.isApi
      [] kind = "Compilation"        -> h.isCompilation
      [] kind = "Fatal"              -> h.isFatal

\* A variant of UnverifiedDartHandle::new without the assertion.
UnverifiedDartHandle_new_unchecked(handle) == [tag |-> "Handle", handle |-> handle]

\* UnverifiedDartHandle::new: assert_ne!(handle, null), then wrap.
UnverifiedDartHandle_new(handle) ==
    IF handle.raw = 0
    THEN [tag |-> "panic", msg |-> "assertion failed: handle != null"]
    ELSE [tag |-> "Handle", handle |-> handle]

\* A variant of get_error that asks Dart_IsApiError first.
get_error_api_first(self) ==
    IF self.isError
    THEN IF self.isApi
         THEN [tag |-> "Err", handle |-> self, kind |-> "Api"]
         ELSE IF self.isUnhandledException
         THEN [tag |-> "Err", handle |-> self, kind |-> "UnhandledException"]
         ELSE IF self.isCompilation
         THEN [tag |-> "Err", handle |-> self, kind |-> "Compilation"]
         ELSE IF self.isFatal
         THEN [tag |-> "Err", handle |-> self, kind |-> "Fatal"]
         ELSE [tag |-> "panic", msg |-> "This shouldn't ever happen!"]
    ELSE [tag |-> "Ok", handle |-> self]

\* UnverifiedDartHandle::get_error.
get_error(self) ==
    IF self.isError
    THEN IF self.isUnhandledException
         THEN [tag |-> "Err", handle |-> self, kind |-> "UnhandledException"]
         ELSE IF self.isApi
         THEN [tag |-> "Err", handle |-> self, kind |-> "Api"]
         ELSE IF self.isCompilation
         THEN [tag |-> "Err", handle |-> self, kind |-> "Compilation"]
         ELSE IF self.isFatal
         THEN [tag |-> "Err", handle |-> self, kind |-> "Fatal"]
         ELSE [tag |-> "panic", msg |-> "This shouldn't ever happen!"]
    ELSE [tag |-> "Ok", handle |-> self]

HandleInit == handle_ret = [op |-> "none"]

\* The host hands a raw handle to UnverifiedDartHandle::new.
Call_new ==
    \E h \in RawHandles :
        /\ handle_ret' = [op |-> "new", arg |-> h, ret |-> UnverifiedDartHandle_new(h)]
        /\ HandleFrame

\* get_error on a wrapper, which new has let through.
Call_get_error ==
    \E h \in RawHandles :
        /\ UnverifiedDartHandle_new(h).tag = "Handle"
        /\ handle_ret' = [op |-> "get_error", arg |-> h, ret |-> get_error(h)]
        /\ HandleFrame

\* `Self::new(handle).get_error()` on the raw handle a host call returned:
\* the way every operation of the layer wraps a host result.
new_get_error(handle) ==
    LET w == UnverifiedDartHandle_new(handle)
    IN  IF w.tag = "panic" THEN w ELSE get_error(w.handle)

\* An operation of the layer calls the host and wraps what comes back.
Call_host_result ==
    \E h \in RawHandles :
        /\ handle_ret' = [op |-> "host_result", arg |-> h, ret |-> new_get_error(h)]
        /\ HandleFrame

HandleNext == Call_new \/ Call_get_error \/ Call_host_result

\* C10: get_error returns Ok(handle) for a non-error handle; for an error
\* handle the tag is the first of UnhandledException, Api, Compilation, Fatal
\* whose host predicate holds, whatever the later predicates answer; when the
\* handle is an error and no predicate holds, get_error panics and returns
\* no value.
C10_GetErrorFirstMatch ==
    handle_ret.op = "get_error" =>
        LET h == handle_ret.arg
            r == handle_ret.ret
            Matching == {i \in 1..Len(ErrorKinds) : Dart_IsKind(h, ErrorKinds[i])}
        IN  /\ ~h.isError => r = [tag |-> "Ok", handle |-> h]
            /\ (h.isError /\ Matching # {}) =>
                   /\ r.tag = "Err"
                   /\ r.handle = h
                   /\ \E i \in Matching :
                          /\ r.kind = ErrorKinds[i]
                          /\ \A j \in Matching : i <= j
            /\ (h.isError /\ Matching = {}) => r.tag = "panic"

\* An error handle that the host calls both an Api error and an unhandled
\* exception has been classified.
C10_Witness ==
    /\ handle_ret.op = "get_error"
    /\ handle_ret.arg.isError
    /\ handle_ret.arg.isUnhandledException
    /\ handle_ret.arg.isApi
    /\ handle_ret.ret.tag = "Err"

\* C14: every UnverifiedDartHandle holds a non-null raw handle:
\* UnverifiedDartHandle::new panics on the null pointer, and a wrapper that
\* new, get_error or an operation wrapping a host result gives back never
\* holds null.
C14_HandleNeverNull ==
    /\ handle_ret.op = "new" =>
           /\ handle_ret.arg.raw = 0 => handle_ret.ret.tag = "panic"
           /\ handle_ret.ret.tag = "Handle" => handle_ret.ret.handle.raw # 0
    /\ handle_ret.op \in {"get_error", "host_result"} =>
           (handle_ret.ret.tag \in {"Ok", "Err"} => handle_ret.ret.handle.raw # 0)

\* The null pointer has been offered to new, which panicked.
C14_Witness ==
    /\ handle_ret.op = "new"
    /\ handle_ret.arg.raw = 0
    /\ handle_ret.ret.tag = "panic"

(***************************************************************************)
(* dart_handle.rs: Port and NativePort                                     *)
(***************************************************************************)
PortIds == 0..MaxPortId
PortNames == {"service_a", "service_b"}
Handlers == {"handler_a", "handler_b"}

\* A variant of from_port without the sentinel test.
from_port_unchecked(port) == Some([port |-> port])

\* Port::from_port.
from_port(port) ==
    IF port = ILLEGAL_PORT THEN None ELSE Some([port |-> port])

\* A variant of new_native that asks the host to run the handler for one
\* message at a time.
new_native_handle_serially == FALSE

\* The handle_concurrently argument new_native passes to
\* ffi::Dart_NewNativePort.
new_native_handle_concurrently == TRUE

\* NativePort::new_native, given the id ffi::Dart_NewNativePort returned:
\* `Port::from_port(port)?` and then Some(Self { port }).
new_native(port) ==
    LET p == from_port(port)
    IN  IF p.tag = "None" THEN None ELSE Some([port |-> p.value])

\* What a host call that reports through a handle gives back: the null
\* pointer, a handle that is no error, or an error handle of one kind.
HostResults ==
    {NullRaw} \cup
    {h \in RawHandles :
        /\ h.raw = 1
        /\ Cardinality({i \in 1..Len(ErrorKinds) : Dart_IsKind(h, ErrorKinds[i])})
               = (IF h.isError THEN 1 ELSE 0)}

\* How the host answers Dart_NewSendPort and Dart_SendPortGetId: the null
\* pointer, a handle that is no error, or an Api error.
SendPortOutcomes == {h \in HostResults : ~h.isError \/ h.isApi}

\* Port::new(port), given the handle ffi::Dart_NewSendPort(port) returned.
Port_new(port, handle) ==
    LET r == new_get_error(handle)
    IN  IF r.tag = "Ok"
        THEN [tag |-> "Ok", port |-> [port |-> port], handle |-> r.handle]
        ELSE r

\* Port::get_main_port, given the id ffi::Dart_GetMainPortId() returned.
get_main_port(port) == [port |-> port]

\* Port::from_send_port, given the handle ffi::Dart_SendPortGetId returned
\* and the id it wrote; the id is read only when the handle is no error.
from_send_port(error_handle, port) ==
    LET r == new_get_error(error_handle)
    IN  IF r.tag = "Ok" THEN [tag |-> "Ok", port |-> [port |-> port]] ELSE r

PortInit ==
    /\ native_ports = <<>>
    /\ ports = {}
    /\ port_ret = [op |-> "none"]

\* Port::from_port on an id the caller supplies.
Call_from_port ==
    \E port \in PortIds :
        LET r == from_port(port)
        IN  /\ port_ret' = [op |-> "from_port", arg |-> port, ret |-> r]
            /\ ports' = IF r.tag = "Some" THEN ports \cup {r.value} ELSE ports
            /\ UNCHANGED native_ports
            /\ PortFrame

\* NativePort::new_native: the host either refuses (ILLEGAL_PORT, nothing
\* registered) or registers the handler, always with handle_concurrently =
\* true, under a fresh port id.
Call_new_native ==
    \E name \in PortNames, handler \in Handlers,
       port \in {ILLEGAL_PORT} \cup ((1..MaxPortId) \ DOMAIN native_ports) :
        LET r == new_native(port)
        IN  /\ native_ports' =
                  IF port = ILLEGAL_PORT THEN native_ports
                  ELSE [p \in DOMAIN native_ports \cup {port} |->
                          IF p = port
                          THEN [name |-> name, handler |-> handler,
                                handle_concurrently |-> new_native_handle_concurrently]
                          ELSE native_ports[p]]
            /\ port_ret' = [op |-> "new_native", arg |-> port, ret |-> r]
            /\ ports' = IF r.tag = "Some" THEN ports \cup {r.value.port} ELSE ports
            /\ PortFrame

\* Port::new on an id the caller supplies, e.g. the id of a received
\* CObject::SendPort.
Call_Port_new ==
    \E port \in PortIds, handle \in SendPortOutcomes :
        LET r == Port_new(port, handle)
        IN  /\ port_ret' = [op |-> "new", arg |-> port, ret |-> r]
            /\ ports' = IF r.tag = "Ok" THEN ports \cup {r.port} ELSE ports
            /\ UNCHANGED native_ports
            /\ PortFrame

\* Port::get_main_port.
Call_get_main_port ==
    \E port \in PortIds :
        LET r == get_main_port(port)
        IN  /\ port_ret' = [op |-> "get_main_port", arg |-> port, ret |-> r]
            /\ ports' = ports \cup {r}
            /\ UNCHANGED native_ports
            /\ PortFrame

\* Port::from_send_port.
Call_from_send_port ==
    \E port \in PortIds, error_handle \in SendPortOutcomes :
        LET r == from_send_port(error_handle, port)
        IN  /\ port_ret' = [op |-> "from_send_port", arg |-> port, ret |-> r]
            /\ ports' = IF r.tag = "Ok" THEN ports \cup {r.port} ELSE ports
            /\ UNCHANGED native_ports
            /\ PortFrame

PortNext ==
    \/ Call_from_port \/ Call_new_native
    \/ Call_Port_new \/ Call_get_main_port \/ Call_from_send_port

\* C7: Port::from_port gives None for ILLEGAL_PORT and an endpoint wrapping
\* the given id for every other id; NativePort::new_native gives None when the
\* host returns ILLEGAL_PORT.
C7_IllegalPortRejected ==
    /\ port_ret.op = "from_port" =>
           /\ port_ret.arg = ILLEGAL_PORT => port_ret.ret = None
           /\ port_ret.arg # ILLEGAL_PORT =>
                  /\ port_ret.ret.tag = "Some"
                  /\ port_ret.ret.value.port = port_ret.arg
    /\ port_ret.op = "new_native" =>
           (port_ret.arg = ILLEGAL_PORT => port_ret.ret = None)

\* The sentinel has been offered to from_port after a native port exists.
C7_Witness ==
    /\ port_ret.op = "from_port"
    /\ port_ret.arg = ILLEGAL_PORT
    /\ port_ret.ret = None
    /\ DOMAIN native_ports # {}

\* C13: no Port value wraps ILLEGAL_PORT, whichever of Port::from_port,
\* Port::new, Port::get_main_port, Port::from_send_port and
\* NativePort::new_native produced it.
C13_NoPortWrapsIllegal ==
    \A p \in ports : p.port # ILLEGAL_PORT

(***************************************************************************)
(* C strings.  A string in memory is its bytes followed by a 0 byte.       *)
(***************************************************************************)
\* CStr::from_ptr(p) / CStr::to_bytes: the bytes at p up to the first 0.
CStr_from_ptr(mem) ==
    LET n == CHOOSE i \in 1..Len(mem) :
                 mem[i] = 0 /\ \A j \in 1..(i - 1) : mem[j] # 0
    IN  SubSeq(mem, 1, n - 1)

\* CString::new(s): Err(NulError) when s holds a 0 byte, else the bytes with
\* a terminating 0.
CString_new(s) ==
    IF \E i \in 1..Len(s) : s[i] = 0
    THEN [tag |-> "Err", kind |-> "NulError"]
    ELSE [tag |-> "Ok", mem |-> s \o <<0>>]

(***************************************************************************)
(* lib.rs: FunctionRegister, resolve_name, resolve_function                *)
(*                                                                         *)
(* Both HashMaps are sets of entries.  A key of `functions` is a           *)
(* &'static CStr, an address into `leaked`; HashMap compares such keys by  *)
(* their bytes.                                                            *)
(***************************************************************************)
f1 == <<102, 49>>
f2 == <<102, 50>>
f3 == <<102, 51>>
\* A &str, or a Dart string, with a 0 byte in it: "f1\0x".
f1_nul_x == <<102, 49, 0, 120>>

\* The names a Registerer passes to add_function.
RegNames == {f1, f2, f3, f1_nul_x}
\* The native function pointers.
NativeFunctions == {"fn_a", "fn_b"}

\* HashMap::insert on `functions`: an equal key keeps the old key and takes
\* the new value.
functions_insert(functions, mem, name, function) ==
    LET hits == {e \in functions :
                    CStr_from_ptr(mem[e.key]) = CStr_from_ptr(mem[name])}
    IN  IF hits = {}
        THEN functions \cup {[key |-> name, value |-> function]}
        ELSE (functions \ hits) \cup {[key |-> e.key, value |-> function] : e \in hits}

\* HashMap::insert on `function_names`.
function_names_insert(function_names, function, name) ==
    {e \in function_names : e.key # function} \cup {[key |-> function, value |-> name]}

\* FunctionRegister::add_function, after the name has been converted and
\* leaked at address `name` of `mem`.
add_function(self, mem, function, name) ==
    [functions |-> functions_insert(self.functions, mem, name, function),
     function_names |-> function_names_insert(self.function_names, function, name)]

\* A variant of get_function that compares the stored bytes, terminator
\* included, with the name read up to its terminator.
get_function_with_nul(self, mem, name) ==
    LET hits == {e \in self.functions : mem[e.key] = CStr_from_ptr(name)}
    IN  IF hits = {} THEN None ELSE Some((CHOOSE e \in hits : TRUE).value)

\* FunctionRegister::get_function; `name` is the C string the pointer
\* addresses.
get_function(self, mem, name) ==
    LET hits == {e \in self.functions :
                    CStr_from_ptr(mem[e.key]) = CStr_from_ptr(name)}
    IN  IF hits = {} THEN None ELSE Some((CHOOSE e \in hits : TRUE).value)

\* FunctionRegister::get_name_from_function; `function` is an Option.
get_name_from_function(self, function) ==
    IF function.tag = "None"
    THEN None
    ELSE LET hits == {e \in self.function_names : e.key = function.value}
         IN  IF hits = {} THEN None ELSE Some((CHOOSE e \in hits : TRUE).value)

\* The handles the host passes to resolve_name: error handles, a handle that
\* is no string, and strings.  toStringError: the host fails Dart_ToString or
\* Dart_StringToCString on it.
NameHandle(raw, isError, kind, isString, str, toStringError) ==
    [raw |-> raw, isError |-> isError,
     isUnhandledException |-> kind = "UnhandledException",
     isApi |-> kind = "Api",
     isCompilation |-> kind = "Compilation",
     isFatal |-> kind = "Fatal",
     isString |-> isString, str |-> str, toStringError |-> toStringError]

NameHandles ==
    {NameHandle(1, TRUE, ErrorKinds[i], FALSE, <<>>, FALSE) : i \in 1..Len(ErrorKinds)}
    \cup {NameHandle(1, FALSE, "none", FALSE, <<>>, FALSE)}
    \cup {NameHandle(1, FALSE, "none", TRUE, n, e) : n \in RegNames, e \in BOOLEAN}

\* UnverifiedDartHandle::to_string: Dart_ToString, Dart_StringToCString, then
\* CStr::from_ptr(cstr).to_owned().
to_string(self) ==
    IF self.toStringError
    THEN [tag |-> "Err", kind |-> "Api"]
    ELSE [tag |-> "Ok", mem |-> CStr_from_ptr(self.str \o <<0>>) \o <<0>>]

\* resolve_name: what the host gets back, and how control leaves.
resolve_name(name) ==
    LET h == UnverifiedDartHandle_new(name)
        v == get_error(name)
        cname == to_string(name)
    IN  IF h.tag = "panic" \/ v.tag = "panic" THEN [exit |-> "panic"]
        ELSE IF v.tag = "Err" THEN [exit |-> "return", ret |-> None]
        ELSE IF ~name.isString THEN [exit |-> "return", ret |-> None]
        ELSE IF cname.tag = "Err" THEN [exit |-> "propagate_error"]
        ELSE [exit |-> "return", auto_scope_setup |-> TRUE,
              ret |-> get_function(REGISTER, leaked, cname.mem)]

\* A variant of resolve_function that answers with the first leaked name.
resolve_function_first_leaked(function) ==
    LET name == get_name_from_function(REGISTER, function)
    IN  IF name.tag = "Some"
        THEN [storage |-> "leaked", addr |-> 1]
        ELSE [storage |-> "static", addr |-> 0]

\* resolve_function: the address of a leaked name, or of the static
\* "<Unknown Native Function>" bytes.
resolve_function(function) ==
    LET name == get_name_from_function(REGISTER, function)
    IN  IF name.tag = "Some"
        THEN [storage |-> "leaked", addr |-> name.value]
        ELSE [storage |-> "static", addr |-> 0]

\* b"<Unknown Native Function>\0".
UnknownNativeFunction ==
    <<60, 85, 110, 107, 110, 111, 119, 110, 32, 78, 97, 116, 105,
      118, 101, 32, 70, 117, 110, 99, 116, 105, 111, 110, 62, 0>>

\* The bytes a pointer returned by resolve_function addresses.
PointedBytes(mem, ptr) ==
    IF ptr.storage = "leaked" THEN mem[ptr.addr] ELSE UnknownNativeFunction

RegInit ==
    /\ held = None
    /\ leaked = <<>>
    /\ REGISTER = [functions |-> {}, function_names |-> {}]
    /\ registered = <<>>
    /\ reg_ret = [op |-> "none"]

\* One add_function call: CString::new(name).unwrap(), Box::leak of the bytes,
\* then the two inserts.
Call_add_function ==
    \E function \in NativeFunctions, name \in RegNames :
        LET c == CString_new(name)
            addr == Len(leaked) + 1
            mem == Append(leaked, c.mem)
        IN  /\ Len(registered) < MaxAdds
            /\ IF c.tag = "Err"
               THEN /\ reg_ret' = [op |-> "add_function", exit |-> "panic"]
                    /\ UNCHANGED <<leaked, REGISTER, registered>>
               ELSE /\ leaked' = mem
                    /\ REGISTER' = add_function(REGISTER, mem, function, addr)
                    /\ registered' = Append(registered, [function |-> function, name |-> name])
                    /\ reg_ret' = [op |-> "add_function", exit |-> "return"]
            /\ UNCHANGED held
            /\ RegFrame

\* The host asks for a function by name.
Call_resolve_name ==
    \E name \in NameHandles :
        /\ reg_ret' = [op |-> "resolve_name", arg |-> name] @@ resolve_name(name)
        /\ UNCHANGED <<leaked, REGISTER, registered, held>>
        /\ RegFrame

\* The host asks for the name of a function pointer (None is the null pointer).
Call_resolve_function ==
    \E function \in {None} \cup {Some(f) : f \in NativeFunctions} :
        /\ reg_ret' = [op |-> "resolve_function", arg |-> function,
                       exit |-> "return", ret |-> resolve_function(function)]
        /\ held' = Some([ptr |-> resolve_function(function),
                         bytes |-> PointedBytes(leaked, resolve_function(function))])
        /\ UNCHANGED <<leaked, REGISTER, registered>>
        /\ RegFrame

RegNext == Call_add_function \/ Call_resolve_name \/ Call_resolve_function

\* C3: after any sequence of add_function calls, every registered name n
\* comes back from get_name_from_function(get_function(n)) with the same
\* bytes.
C3_RegistryRoundTrip ==
    \A i \in 1..Len(registered) :
        LET n == registered[i].name
            back == get_name_from_function(REGISTER, get_function(REGISTER, leaked, n \o <<0>>))
        IN  /\ back.tag = "Some"
            /\ CStr_from_ptr(leaked[back.value]) = n

\* C15: a pointer resolve_function returned addresses storage that exists,
\* ends in a 0 byte and still holds the bytes it held when it was returned,
\* whatever add_function calls came later; and when the pointer asked about
\* is registered, the string is one of the names registered for it.
C15_ResolvedNameStable ==
    /\ held.tag = "Some" =>
           LET ptr == held.value.ptr
               now == PointedBytes(leaked, ptr)
           IN  /\ ptr.storage \in {"leaked", "static"}
               /\ ptr.storage = "leaked" => ptr.addr \in DOMAIN leaked
               /\ now = held.value.bytes
               /\ Len(now) > 0
               /\ now[Len(now)] = 0
    /\ (reg_ret.op = "resolve_function" /\ reg_ret.arg.tag = "Some") =>
           LET Names == {registered[i].name :
                           i \in {j \in 1..Len(registered) :
                                     registered[j].function = reg_ret.arg.value}}
           IN  Names # {} =>
                   CStr_from_ptr(PointedBytes(leaked, reg_ret.ret)) \in Names

\* The host holds the name resolve_function gave it for a pointer, and that
\* pointer has since been registered again by add_function.
C15_Witness ==
    /\ held.tag = "Some"
    /\ held.value.ptr.storage = "leaked"
    /\ reg_ret = [op |-> "add_function", exit |-> "return"]
    /\ Len(leaked) > held.value.ptr.addr
    /\ \E e \in REGISTER.function_names :
           /\ e.key = registered[Len(registered)].function
           /\ e.value # held.value.ptr.addr
           /\ held.value.bytes \in
                  {leaked[a] : a \in {b \in DOMAIN leaked : b < e.value}}

\* C20: after any sequence of add_function calls the two maps are mutually
\* inverse: `functions` sends the name n to f exactly when `function_names`
\* sends f to n.
C20_MapsMutuallyInverse ==
    /\ \A e \in REGISTER.functions :
           \E d \in REGISTER.function_names :
               /\ d.key = e.value
               /\ CStr_from_ptr(leaked[d.value]) = CStr_from_ptr(leaked[e.key])
    /\ \A d \in REGISTER.function_names :
           \E e \in REGISTER.functions :
               /\ e.value = d.key
               /\ CStr_from_ptr(leaked[e.key]) = CStr_from_ptr(leaked[d.value])

\* The register was filled by add_function(fn_a, "f1") and add_function(fn_b, "f2").
C8_Scenario ==
    /\ Len(registered) = 2
    /\ Range(registered) = {[function |-> "fn_a", name |-> f1],
                            [function |-> "fn_b", name |-> f2]}

DartNull == [raw |-> 2, isError |-> FALSE, isUnhandledException |-> FALSE,
             isApi |-> FALSE, isCompilation |-> FALSE, isFatal |-> FALSE]

\* The names a program exports.
InitNames == {f1, f2, f1_nul_x}

\* What the Registerers of a program can add, in order.
RegisterLists ==
    SeqsUpTo([function : NativeFunctions, name : InitNames], MaxEntries)

\* A variant of init's order of statements in which the resolvers are handed
\* to the host before the Registerers run.
InitAfter_resolver_first(pc) ==
    CASE pc = "start"        -> "set_resolver"
      [] pc = "set_resolver" -> "lock"
      [] pc = "lock"         -> "register"
      [] pc = "register"     -> "return"

\* The order of init's statements: REGISTER.write(), the Registerers and
\* drop(lock), Dart_SetNativeResolver, the return.
InitAfter(pc) ==
    CASE pc = "start"        -> "lock"
      [] pc = "lock"         -> "register"
      [] pc = "register"     -> "set_resolver"
      [] pc = "set_resolver" -> "return"

\* A variant of init's first statements that goes on with an error handle.
init_check_ignores_error(parent_library) ==
    LET r == new_get_error(parent_library)
    IN  IF r.tag = "panic" THEN [exit |-> "panic"]
        ELSE [exit |-> "continue", library |-> r.handle]

\* init's first statements: UnverifiedDartHandle::new(parent_library)
\* .get_error(), and the early return of the handle when it is an error.
init_check(parent_library) ==
    LET r == new_get_error(parent_library)
    IN  IF r.tag = "panic" THEN [exit |-> "panic"]
        ELSE IF r.tag = "Err" THEN [exit |-> "return", ret |-> r.handle]
        ELSE [exit |-> "continue", library |-> r.handle]

LoaderInit ==
    /\ init_pc = "idle"
    /\ init_arg = NullRaw
    /\ init_regs = <<>>
    /\ init_ret = NullRaw
    /\ lock = "free"
    /\ resolver = None

\* The host loader calls init.
Call_init ==
    \E parent_library \in HostResults, registers \in RegisterLists :
        LET c == init_check(parent_library)
        IN  /\ init_pc = "idle"
            /\ init_arg' = parent_library
            /\ init_regs' = registers
            /\ init_pc' = CASE c.exit = "panic"    -> "panicked"
                            [] c.exit = "return"   -> "returned"
                            [] c.exit = "continue" -> InitAfter("start")
            /\ init_ret' = IF c.exit = "return" THEN c.ret ELSE init_ret
            /\ UNCHANGED <<lock, resolver, reg_vars>>
            /\ InitFrame

\* let mut lock = REGISTER.write().unwrap();
Init_lock ==
    /\ init_pc = "lock"
    /\ lock = "free"
    /\ lock' = "write"
    /\ init_pc' = InitAfter("lock")
    /\ UNCHANGED <<init_arg, init_regs, init_ret, resolver, reg_vars>>
    /\ InitFrame

\* One add_function call of a Registerer.  A name with a 0 byte panics in
\* CString::new(name).unwrap(); the unwinding drops the guard and poisons the
\* lock.
Init_register ==
    /\ init_pc = "register"
    /\ Len(registered) < Len(init_regs)
    /\ LET e == init_regs[Len(registered) + 1]
           c == CString_new(e.name)
           addr == Len(leaked) + 1
           mem == Append(leaked, c.mem)
       IN  IF c.tag = "Err"
           THEN /\ init_pc' = "panicked"
                /\ lock' = "poisoned"
                /\ UNCHANGED <<leaked, REGISTER, registered>>
           ELSE /\ leaked' = mem
                /\ REGISTER' = add_function(REGISTER, mem, e.function, addr)
                /\ registered' = Append(registered, e)
                /\ UNCHANGED <<init_pc, lock>>
    /\ UNCHANGED <<init_arg, init_regs, init_ret, resolver, reg_ret, held>>
    /\ InitFrame

\* The loop over the Registerers is over: drop(lock).
Init_unlock ==
    /\ init_pc = "register"
    /\ Len(registered) = Len(init_regs)
    /\ lock' = "free"
    /\ init_pc' = InitAfter("register")
    /\ UNCHANGED <<init_arg, init_regs, init_ret, resolver, reg_vars>>
    /\ InitFrame

\* ffi::Dart_SetNativeResolver(library, resolve_name, resolve_function), and
\* the handle init will return: the error the host reported, else null().
Init_set_resolver ==
    \E result_code \in HostResults :
        LET r == new_get_error(result_code)
        IN  /\ init_pc = "set_resolver"
            /\ resolver' = IF r.tag = "Ok"
                           THEN Some([library |-> init_arg,
                                      resolver |-> "resolve_name",
                                      symbol |-> "resolve_function"])
                           ELSE resolver
            /\ init_pc' = IF r.tag = "panic" THEN "panicked"
                          ELSE InitAfter("set_resolver")
            /\ init_ret' = CASE r.tag = "panic" -> init_ret
                             [] r.tag = "Err"   -> r.handle
                             [] r.tag = "Ok"    -> DartNull
            /\ UNCHANGED <<init_arg, init_regs, lock, reg_vars>>
            /\ InitFrame

\* init returns to the host loader.
Init_return ==
    /\ init_pc = "return"
    /\ init_pc' = "returned"
    /\ UNCHANGED <<init_arg, init_regs, init_ret, lock, resolver, reg_vars>>
    /\ InitFrame

\* The host resolves a name through the resolver it was given; resolve_name
\* takes REGISTER.read().
Host_resolve_name ==
    /\ resolver.tag = "Some"
    /\ lock = "free"
    /\ Call_resolve_name

\* A variant of the reverse lookup that forgets the names it has served.
Host_resolve_function_forgetting ==
    /\ resolver.tag = "Some"
    /\ lock = "free"
    /\ \E function \in {None} \cup {Some(f) : f \in NativeFunctions} :
        /\ reg_ret' = [op |-> "resolve_function", arg |-> function,
                       exit |-> "return", ret |-> resolve_function(function)]
        /\ held' = Some([ptr |-> resolve_function(function),
                         bytes |-> PointedBytes(leaked, resolve_function(function))])
        /\ REGISTER' = [REGISTER EXCEPT !.function_names =
                            {e \in @ : function.tag = "Some" => e.key # function.value}]
        /\ UNCHANGED <<leaked, registered>>
        /\ RegFrame

\* The host asks for the name of a function pointer; resolve_function takes
\* REGISTER.read().
Host_resolve_function ==
    /\ resolver.tag = "Some"
    /\ lock = "free"
    /\ Call_resolve_function

InitNext ==
    \/ Call_init \/ Init_lock \/ Init_register \/ Init_unlock
    \/ Init_set_resolver \/ Init_return
    \/ Host_resolve_name \/ Host_resolve_function

\* The function the last entry of `entries` with the name n carries.
LastFunctionOf(entries, n) ==
    LET hits == {i \in 1..Len(entries) : entries[i].name = n}
    IN  IF hits = {} THEN None
        ELSE Some(entries[CHOOSE i \in hits : \A j \in hits : j <= i].function)

\* The name the last entry of `entries` with the function f carries.
LastNameOf(entries, f) ==
    LET hits == {i \in 1..Len(entries) : entries[i].function = f}
    IN  IF hits = {} THEN None
        ELSE Some(entries[CHOOSE i \in hits : \A j \in hits : j <= i].name)

\* C11: a resolve_name or resolve_function call the host makes through the
\* resolvers init gave it comes after every registry write of that init and
\* after the write lock was released, and it sees all of init's entries.
C11_ResolveAfterWrites ==
    reg_ret.op \in {"resolve_name", "resolve_function"} =>
        /\ resolver.tag = "Some"
        /\ lock = "free"
        /\ registered = init_regs
        /\ (/\ reg_ret.op = "resolve_name"
            /\ ~reg_ret.arg.isError
            /\ reg_ret.arg.isString
            /\ ~reg_ret.arg.toStringError) =>
               /\ reg_ret.exit = "return"
               /\ reg_ret.ret =
                      LastFunctionOf(init_regs, CStr_from_ptr(reg_ret.arg.str \o <<0>>))
        /\ (reg_ret.op = "resolve_function" /\ reg_ret.arg.tag = "Some") =>
               LET n == LastNameOf(init_regs, reg_ret.arg.value)
               IN  IF n.tag = "Some"
                   THEN /\ reg_ret.ret.storage = "leaked"
                        /\ CStr_from_ptr(PointedBytes(leaked, reg_ret.ret)) = n.value
                   ELSE reg_ret.ret.storage = "static"

\* init registered two functions and the host has resolved one of them by
\* name.
C11_Witness ==
    /\ reg_ret.op = "resolve_name"
    /\ reg_ret.exit = "return"
    /\ reg_ret.ret.tag = "Some"
    /\ Len(init_regs) = 2
    /\ Len(registered) = 2

\* C12: when parent_library is an error handle, init returns that handle at
\* once: no Registerer has run, the registry is as it was, and the host has
\* been given no resolver.
C12_ErrorLibraryReturned ==
    (init_pc # "idle" /\ init_arg.isError) =>
        /\ init_pc = "returned"
        /\ init_ret = init_arg
        /\ registered = <<>>
        /\ leaked = <<>>
        /\ REGISTER = [functions |-> {}, function_names |-> {}]
        /\ lock = "free"
        /\ resolver = None

\* init was called with an error handle and a program that exports functions.
C12_Witness ==
    /\ init_pc = "returned"
    /\ init_arg.isError
    /\ Len(init_regs) > 0

\* C19: once init has returned the registry is read-only: no step changes
\* either map or the leaked names, and resolve_name and resolve_function,
\* with the get_function and get_name_from_function calls they make, leave
\* both maps as they were.
C19_RegistryReadOnly ==
    [][/\ init_pc = "returned" => (REGISTER' = REGISTER /\ leaked' = leaked)
       /\ (reg_ret' # reg_ret /\ reg_ret'.op \in {"resolve_name", "resolve_function"})
              => REGISTER' = REGISTER]_vars

\* init has returned with functions registered and the host has since
\* looked up the name of one of them.
C19_Witness ==
    /\ init_pc = "returned"
    /\ registered # <<>>
    /\ reg_ret.op = "resolve_function"
    /\ reg_ret.ret.storage = "leaked"

(***************************************************************************)
(* lib.rs: resolve_name and resolve_function beside a running init         *)
(*                                                                         *)
(* init is followed insert by insert, and a reader on another thread may   *)
(* call resolve_name or resolve_function at any moment.  A reader takes    *)
(* REGISTER.read().unwrap(): it waits while the write guard is held and    *)
(* panics when the lock is poisoned.  A reader holds its guard for one     *)
(* lookup only, so the lookup is one step.                                 *)
(***************************************************************************)
\* A variant of RwLock_read that lets a reader in while the write guard is
\* held.
RwLock_read_unguarded(l) == IF l = "poisoned" THEN "poisoned" ELSE "ok"

\* REGISTER.read() as the reader meets it.
RwLock_read(l) ==
    CASE l = "free"     -> "ok"
      [] l = "write"    -> "blocked"
      [] l = "poisoned" -> "poisoned"

ConcInit ==
    /\ half = FALSE
    /\ observed = None

\* add_function up to and including self.functions.insert(name, function).
Conc_insert_functions ==
    /\ init_pc = "register"
    /\ ~half
    /\ Len(registered) < Len(init_regs)
    /\ LET e == init_regs[Len(registered) + 1]
           c == CString_new(e.name)
           addr == Len(leaked) + 1
           mem == Append(leaked, c.mem)
       IN  IF c.tag = "Err"
           THEN /\ init_pc' = "panicked"
                /\ lock' = "poisoned"
                /\ UNCHANGED <<leaked, REGISTER, half>>
           ELSE /\ leaked' = mem
                /\ REGISTER' = [REGISTER EXCEPT !.functions =
                                   functions_insert(@, mem, addr, e.function)]
                /\ half' = TRUE
                /\ UNCHANGED <<init_pc, lock>>
    /\ UNCHANGED <<init_arg, init_regs, init_ret, resolver, registered, reg_ret,
                   held, observed>>
    /\ ConcFrame

\* add_function's self.function_names.insert(function, name).
Conc_insert_function_names ==
    /\ init_pc = "register"
    /\ half
    /\ LET e == init_regs[Len(registered) + 1]
       IN  /\ REGISTER' = [REGISTER EXCEPT !.function_names =
                              function_names_insert(@, e.function, Len(leaked))]
           /\ registered' = Append(registered, e)
    /\ half' = FALSE
    /\ UNCHANGED <<init_vars, leaked, reg_ret, held, observed>>
    /\ ConcFrame

\* What a reader finds: the registry and how far init has come.
Snapshot ==
    Some([REGISTER |-> REGISTER, registered |-> registered, half |-> half,
          pc |-> init_pc])

\* The name handles with which resolve_name comes to REGISTER.read(): valid
\* strings that to_string turns into a CString.
ReadingNames ==
    {name \in NameHandles :
        /\ UnverifiedDartHandle_new(name).tag = "Handle"
        /\ get_error(name).tag = "Ok"
        /\ name.isString
        /\ to_string(name).tag = "Ok"}

\* A thread of the host calls resolve_name while init may be running.
Conc_resolve_name ==
    \E name \in ReadingNames :
        LET guard == RwLock_read(lock)
        IN  /\ guard # "blocked"
            /\ IF guard = "poisoned"
               THEN /\ reg_ret' = [op |-> "resolve_name", arg |-> name, exit |-> "panic"]
                    /\ UNCHANGED observed
               ELSE /\ reg_ret' = [op |-> "resolve_name", arg |-> name] @@ resolve_name(name)
                    /\ observed' = Snapshot
            /\ UNCHANGED <<init_vars, leaked, REGISTER, registered, held, half>>
            /\ ConcFrame

\* A thread of the host calls resolve_function while init may be running.
Conc_resolve_function ==
    \E function \in {None} \cup {Some(f) : f \in NativeFunctions} :
        LET guard == RwLock_read(lock)
        IN  /\ guard # "blocked"
            /\ IF guard = "poisoned"
               THEN /\ reg_ret' = [op |-> "resolve_function", arg |-> function,
                                   exit |-> "panic"]
                    /\ UNCHANGED <<observed, held>>
               ELSE /\ reg_ret' = [op |-> "resolve_function", arg |-> function,
                                   exit |-> "return", ret |-> resolve_function(function)]
                    /\ held' = Some([ptr |-> resolve_function(function),
                                     bytes |-> PointedBytes(leaked, resolve_function(function))])
                    /\ observed' = Snapshot
            /\ UNCHANGED <<init_vars, leaked, REGISTER, registered, half>>
            /\ ConcFrame

ConcNext ==
    \/ Call_init \/ Init_lock \/ Conc_insert_functions \/ Conc_insert_function_names
    \/ Init_unlock \/ Init_set_resolver \/ Init_return
    \/ Conc_resolve_name \/ Conc_resolve_function

\* C21: a resolve_name or resolve_function call beside a running init finds
\* the registry as it was before init took the write lock or as it is after
\* all of init's Registerers have run: never with only some of init's
\* entries, and never with only one of an entry's two inserts.
C21_ReadersSeeBeforeOrAfter ==
    observed.tag = "Some" =>
        /\ observed.value.registered \in {<<>>, init_regs}
        /\ ~observed.value.half
        /\ observed.value.registered = <<>> =>
               observed.value.REGISTER = [functions |-> {}, function_names |-> {}]
        /\ observed.value.pc # "register"

\* A reader looked at the registry while init had been called and had not
\* yet taken the write lock; init has since registered two functions.
C21_Witness ==
    /\ observed.tag = "Some"
    /\ observed.value.pc = "lock"
    /\ observed.value.registered = <<>>
    /\ Len(registered) = 2
    /\ init_pc = "returned"

(***************************************************************************)
(* dart_cobject.rs: CObject, CObject::from, CObject::into_leak             *)
(*                                                                         *)
(* A CObject is a record [tag, v].  An ffi::Dart_CObject is a record       *)
(* [type_, value], where value holds the one union member written.  The    *)
(* heap is a sequence of cells addressed by index: "bytes" (a C string),   *)
(* "box" (one boxed Dart_CObject) and "slice" (a block of pointers).       *)
(***************************************************************************)
\* The address of an empty boxed slice: nothing is allocated for it.
Dangling == 0 - 1

StringBytes == {97, 98}

\* TypedDataArray::WithFinalizer over an ffi::Dart_ExternalTypedData, as
\* TypedDataArray::create builds it.
ExternalBuffer ==
    [variant |-> "WithFinalizer",
     desc |-> [type_ |-> "Uint8", length |-> 2, data |-> "data_1",
               peer |-> "peer_1", callback |-> "free_u8"]]
\* TypedDataArray::WithoutFinalizer over an ffi::Dart_TypedData of the host.
HostBuffer ==
    [variant |-> "WithoutFinalizer",
     desc |-> [type_ |-> "Uint8", length |-> 2, values |-> "host_data_1"]]

Leaves ==
    {[tag |-> "Null"]}
    \cup {[tag |-> "Bool", v |-> b] : b \in BOOLEAN}
    \cup {[tag |-> "Int32", v |-> 0 - 7], [tag |-> "Int64", v |-> 2000000000],
          [tag |-> "Double", v |-> 15]}
    \cup {[tag |-> "String", v |-> q] : q \in SeqsUpTo(StringBytes, MaxStrLen)}
    \cup {[tag |-> "SendPort", v |-> [id |-> 1, origin_id |-> 2]]}
    \cup {[tag |-> "TypedData", v |-> ExternalBuffer],
          [tag |-> "TypedData", v |-> HostBuffer]}

InnerLeaves == {[tag |-> "Int32", v |-> 0 - 7], [tag |-> "String", v |-> <<97>>]}

ArraysOf(S) == {[tag |-> "Array", v |-> q] : q \in SeqsUpTo(S, MaxArrayLen)}

\* The CObject values of the model: the leaves, and arrays of leaves and of
\* arrays.
CObjects == Leaves \cup ArraysOf(Leaves \cup ArraysOf(InnerLeaves))

RECURSIVE HasHostBuffer(_)
\* Whether a CObject holds a host-owned buffer at any depth.
HasHostBuffer(x) ==
    CASE x.tag = "TypedData" -> x.v.variant = "WithoutFinalizer"
      [] x.tag = "Array"     -> \E i \in 1..Len(x.v) : HasHostBuffer(x.v[i])
      [] OTHER               -> FALSE

RECURSIVE into_leak(_, _), into_leak_elems(_, _, _), from(_, _)
RECURSIVE as_non_leak(_, _), as_non_leak_elems(_, _, _)
RECURSIVE as_non_leak_elems_reversed(_, _, _)
RECURSIVE from_substituting_null(_, _)
RECURSIVE into_leak_elems_reversed(_, _, _)

\* A variant of into_leak_elems that collects the pointers back to front.
into_leak_elems_reversed(x, heap, ptrs) ==
    IF x = <<>>
    THEN [ptrs |-> ptrs, heap |-> heap]
    ELSE LET r == into_leak(Head(x), heap)
             h == Append(r.heap, [kind |-> "box", obj |-> r.object])
         IN  into_leak_elems_reversed(Tail(x), h, <<Len(h)>> \o ptrs)

\* x.into_iter().map(|x| x.into_leak()).map(Box::new).collect(): each element
\* is converted and boxed in turn, the boxes' addresses kept in order.
into_leak_elems(x, heap, ptrs) ==
    IF x = <<>>
    THEN [ptrs |-> ptrs, heap |-> heap]
    ELSE LET r == into_leak(Head(x), heap)
             h == Append(r.heap, [kind |-> "box", obj |-> r.object])
         IN  into_leak_elems(Tail(x), h, Append(ptrs, Len(h)))

\* CObject::into_leak: the record for the host and the heap after the leaks.
into_leak(self, heap) ==
    CASE self.tag = "Null" ->
           [object |-> [type_ |-> "Null", value |-> [as_bool |-> FALSE]], heap |-> heap]
      [] self.tag = "Bool" ->
           [object |-> [type_ |-> "Bool", value |-> [as_bool |-> self.v]], heap |-> heap]
      [] self.tag = "Int32" ->
           [object |-> [type_ |-> "Int32", value |-> [as_int32 |-> self.v]], heap |-> heap]
      [] self.tag = "Int64" ->
           [object |-> [type_ |-> "Int64", value |-> [as_int64 |-> self.v]], heap |-> heap]
      [] self.tag = "Double" ->
           [object |-> [type_ |-> "Double", value |-> [as_double |-> self.v]], heap |-> heap]
      [] self.tag = "TypedData" ->
           IF self.v.variant = "WithoutFinalizer"
           THEN [object |-> [type_ |-> "TypedData",
                             value |-> [as_typed_data |-> self.v.desc]],
                 heap |-> heap]
           ELSE [object |-> [type_ |-> "ExternalTypedData",
                             value |-> [as_external_typed_data |-> self.v.desc]],
                 heap |-> heap]
      [] self.tag = "SendPort" ->
           [object |-> [type_ |-> "SendPort", value |-> [as_send_port |-> self.v]],
            heap |-> heap]
      [] self.tag = "Array" ->
           LET boxes == into_leak_elems(self.v, heap, <<>>)
               len == Len(boxes.ptrs)
               \* Box::leak(vec.into_boxed_slice()): no block for an empty Vec.
               h == IF len = 0 THEN boxes.heap
                    ELSE Append(boxes.heap, [kind |-> "slice", ptrs |-> boxes.ptrs])
               ptr == IF len = 0 THEN Dangling ELSE Len(h)
           IN  [object |-> [type_ |-> "Array",
                            value |-> [as_array |-> [length |-> len, values |-> ptr]]],
                heap |-> h]
      [] self.tag = "String" ->
           \* CString::into_raw: the bytes and their terminator stay allocated.
           LET h == Append(heap, [kind |-> "bytes", mem |-> self.v \o <<0>>])
           IN  [object |-> [type_ |-> "String", value |-> [as_string |-> Len(h)]],
                heap |-> h]

\* A variant of as_non_leak_elems that collects the pointers back to front.
as_non_leak_elems_reversed(x, heap, ptrs) ==
    IF x = <<>>
    THEN [ptrs |-> ptrs, heap |-> heap]
    ELSE LET r == as_non_leak(Head(x), heap)
             h == Append(r.heap, [kind |-> "box", obj |-> r.object])
         IN  as_non_leak_elems_reversed(Tail(x), h, <<Len(h)>> \o ptrs)

\* x.into_iter().map(|x| x.as_non_leak().object).map(Box::new).collect() over
\* &Vec<CObject>: each element is borrowed, converted and boxed in turn.
as_non_leak_elems(x, heap, ptrs) ==
    IF x = <<>>
    THEN [ptrs |-> ptrs, heap |-> heap]
    ELSE LET r == as_non_leak(Head(x), heap)
             h == Append(r.heap, [kind |-> "box", obj |-> r.object])
         IN  as_non_leak_elems(Tail(x), h, Append(ptrs, Len(h)))

\* CObject::as_non_leak: the record inside the CObjectLock and the heap
\* after it.  A string's record points at the buffer of the CString, which
\* stays the CString's: the cell is marked as borrowed from self.
as_non_leak(self, heap) ==
    CASE self.tag = "Null" ->
           [object |-> [type_ |-> "Null", value |-> [as_bool |-> FALSE]], heap |-> heap]
      [] self.tag = "Bool" ->
           [object |-> [type_ |-> "Bool", value |-> [as_bool |-> self.v]], heap |-> heap]
      [] self.tag = "Int32" ->
           [object |-> [type_ |-> "Int32", value |-> [as_int32 |-> self.v]], heap |-> heap]
      [] self.tag = "Int64" ->
           [object |-> [type_ |-> "Int64", value |-> [as_int64 |-> self.v]], heap |-> heap]
      [] self.tag = "Double" ->
           [object |-> [type_ |-> "Double", value |-> [as_double |-> self.v]], heap |-> heap]
      [] self.tag = "TypedData" ->
           IF self.v.variant = "WithoutFinalizer"
           THEN [object |-> [type_ |-> "TypedData",
                             value |-> [as_typed_data |-> self.v.desc]],
                 heap |-> heap]
           ELSE [object |-> [type_ |-> "ExternalTypedData",
                             value |-> [as_external_typed_data |-> self.v.desc]],
                 heap |-> heap]
      [] self.tag = "SendPort" ->
           [object |-> [type_ |-> "SendPort", value |-> [as_send_port |-> self.v]],
            heap |-> heap]
      [] self.tag = "Array" ->
           LET boxes == as_non_leak_elems(self.v, heap, <<>>)
               len == Len(boxes.ptrs)
               h == IF len = 0 THEN boxes.heap
                    ELSE Append(boxes.heap, [kind |-> "slice", ptrs |-> boxes.ptrs])
               ptr == IF len = 0 THEN Dangling ELSE Len(h)
           IN  [object |-> [type_ |-> "Array",
                            value |-> [as_array |-> [length |-> len, values |-> ptr]]],
                heap |-> h]
      [] self.tag = "String" ->
           \* cstring.as_ptr(): the address of the bytes the CString owns.
           LET h == Append(heap, [kind |-> "bytes", mem |-> self.v \o <<0>>,
                                  borrowed |-> TRUE])
           IN  [object |-> [type_ |-> "String", value |-> [as_string |-> Len(h)]],
                heap |-> h]

\* A variant of from that puts CObject::Null where the record has a tag
\* without a variant.
from_substituting_null(object, heap) ==
    LET ty == object.type_
        value == object.value
    IN  CASE ty \in {"Unsupported", "NumberOfTypes", "Capability"} -> [tag |-> "Null"]
          [] ty = "Array" ->
               LET arr == value.as_array
                   slice == IF arr.length = 0 THEN <<>>
                            ELSE SubSeq(heap[arr.values].ptrs, 1, arr.length)
               IN  [tag |-> "Array",
                    v |-> [i \in 1..Len(slice) |->
                              from_substituting_null(heap[slice[i]].obj, heap)]]
          [] ty = "String" ->
               [tag |-> "String", v |-> CStr_from_ptr(heap[value.as_string].mem)]
          [] OTHER -> [tag |-> ty, v |-> value]

\* CObject::from: the CObject built from a record of the host, or a panic.
from(object, heap) ==
    LET ty == object.type_
        value == object.value
    IN  CASE ty = "Null"     -> [tag |-> "Null"]
          [] ty = "Bool"     -> [tag |-> "Bool", v |-> value.as_bool]
          [] ty = "Int32"    -> [tag |-> "Int32", v |-> value.as_int32]
          [] ty = "Int64"    -> [tag |-> "Int64", v |-> value.as_int64]
          [] ty = "Double"   -> [tag |-> "Double", v |-> value.as_double]
          [] ty = "SendPort" -> [tag |-> "SendPort", v |-> value.as_send_port]
          [] ty = "String"   ->
               [tag |-> "String", v |-> CStr_from_ptr(heap[value.as_string].mem)]
          [] ty = "Array"    ->
               LET arr == value.as_array
                   slice == IF arr.length = 0 THEN <<>>
                            ELSE SubSeq(heap[arr.values].ptrs, 1, arr.length)
                   vec == [i \in 1..Len(slice) |-> from(heap[slice[i]].obj, heap)]
               IN  IF \E i \in 1..Len(vec) : vec[i].tag = "panic"
                   THEN [tag |-> "panic"]
                   ELSE [tag |-> "Array", v |-> vec]
          [] ty = "TypedData" ->
               [tag |-> "TypedData",
                v |-> [variant |-> "WithoutFinalizer", desc |-> value.as_typed_data]]
          [] ty = "ExternalTypedData" ->
               [tag |-> "TypedData",
                v |-> [variant |-> "WithFinalizer", desc |-> value.as_external_typed_data]]
          [] ty \in {"Unsupported", "NumberOfTypes", "Capability"} ->
               [tag |-> "panic"]

\* The component at rest, in the specifications of the other components.
CoIdle ==
    /\ co_self = [tag |-> "Null"]
    /\ co_heap = <<>>
    /\ co_object = [type_ |-> "none"]
    /\ co_back = [tag |-> "none"]
    /\ co_pc = "idle"
    /\ co_lock = [type_ |-> "none"]

CoInit ==
    /\ co_self \in CObjects
    /\ co_heap = <<>>
    /\ co_object = [type_ |-> "none"]
    /\ co_back = [tag |-> "none"]
    /\ co_pc = "native"
    /\ co_lock = [type_ |-> "none"]

\* self.into_leak(): the CObject is consumed and its record is left for the host.
Call_into_leak ==
    /\ co_pc = "native"
    /\ LET r == into_leak(co_self, co_heap)
       IN  /\ co_object' = r.object
           /\ co_heap' = r.heap
    /\ co_pc' = "leaked"
    /\ UNCHANGED <<co_self, co_back, co_lock>>
    /\ CoFrame

\* CObject::from on the record into_leak produced.
Call_from ==
    /\ co_pc = "leaked"
    /\ co_back' = from(co_object, co_heap)
    /\ co_pc' = "ingested"
    /\ UNCHANGED <<co_self, co_heap, co_object, co_lock>>
    /\ CoFrame

\* self.as_non_leak() on the CObject the caller still holds.
Call_as_non_leak ==
    /\ co_pc = "native"
    /\ co_lock.type_ = "none"
    /\ LET r == as_non_leak(co_self, co_heap)
       IN  /\ co_lock' = r.object
           /\ co_heap' = r.heap
    /\ UNCHANGED <<co_self, co_object, co_back, co_pc>>
    /\ CoFrame

CoNext == Call_into_leak \/ Call_from \/ Call_as_non_leak

\* C1: for every CObject v with no host-owned buffer in it, CObject::from of
\* the record v.into_leak() produced is structurally equal to v: the same
\* variant, value or bytes, and for arrays the same elements in order.
C1_RoundTrip ==
    (co_pc = "ingested" /\ ~HasHostBuffer(co_self)) => co_back = co_self

\* A nested array holding a string and an external buffer has made the trip.
C1_Witness ==
    /\ co_pc = "ingested"
    /\ co_self.tag = "Array"
    /\ Len(co_self.v) = 2
    /\ co_self.v[1].tag = "Array"
    /\ Len(co_self.v[1].v) = 2
    /\ co_self.v[1].v[2].tag = "String"
    /\ co_self.v[2].tag = "TypedData"
    /\ co_self.v[2].v.variant = "WithFinalizer"
    /\ co_back.tag = "Array"

RECURSIVE RecordShape(_, _)
\* What a reader of an ffi::Dart_CObject finds behind it: the tag, the
\* scalar or descriptor, the bytes of a string, and for an array its length
\* and the same of its elements in order.
RecordShape(object, heap) ==
    CASE object.type_ = "Array" ->
           LET arr == object.value.as_array
           IN  [type_ |-> "Array", length |-> arr.length,
                elems |-> [i \in 1..arr.length |->
                              RecordShape(heap[heap[arr.values].ptrs[i]].obj, heap)]]
      [] object.type_ = "String" ->
           [type_ |-> "String", bytes |-> heap[object.value.as_string].mem]
      [] OTHER -> object

\* C24: as_non_leak leaves the source CObject unchanged and with its caller,
\* the strings of its record are the CStrings' own bytes and not released
\* ones, and the record has the same tags, scalar values, array lengths and
\* element order as the record into_leak produces for the same value.
C24_AsNonLeakMatchesIntoLeak ==
    /\ []((co_lock.type_ # "none" /\ co_object.type_ # "none") =>
              RecordShape(co_lock, co_heap) = RecordShape(co_object, co_heap))
    /\ [][co_lock' # co_lock =>
              /\ co_self' = co_self
              /\ co_pc = "native" /\ co_pc' = "native"
              /\ SubSeq(co_heap', 1, Len(co_heap)) = co_heap
              /\ \A a \in (Len(co_heap) + 1)..Len(co_heap') :
                     co_heap'[a].kind = "bytes" => co_heap'[a].borrowed]_vars

\* as_non_leak and then into_leak have run on an array of a nested array
\* with a string and of an external buffer.
C24_Witness ==
    /\ co_lock.type_ = "Array"
    /\ co_object.type_ = "Array"
    /\ Len(co_self.v) = 2
    /\ co_self.v[1].tag = "Array"
    /\ Len(co_self.v[1].v) = 2
    /\ co_self.v[1].v[2].tag = "String"
    /\ co_self.v[1].v[1].tag = "Int32"
    /\ co_self.v[2].tag = "TypedData"

RECURSIVE HasUnimplementedTag(_, _)
\* Whether a record of the host carries, at any depth, a tag CObject has no
\* variant for.
HasUnimplementedTag(object, heap) ==
    \/ object.type_ \in {"Unsupported", "NumberOfTypes", "Capability"}
    \/ /\ object.type_ = "Array"
       /\ \E i \in 1..object.value.as_array.length :
              HasUnimplementedTag(heap[heap[object.value.as_array.values].ptrs[i]].obj, heap)

(***************************************************************************)
(* dart_cobject.rs: CObject::from on the records of the host               *)
(*                                                                         *)
(* The host builds a record of any Dart_CObject_Type, the three tags       *)
(* without a CObject variant included, and hands it to CObject::from.      *)
(***************************************************************************)
\* The tags of ffi::Dart_CObject_Type that CObject::from has no variant for.
UnimplementedTags == {"Unsupported", "NumberOfTypes", "Capability"}

HostLeaves ==
    {[tag |-> "Null"], [tag |-> "Int32", v |-> 3], [tag |-> "String", v |-> <<97>>]}
    \cup {[tag |-> t] : t \in UnimplementedTags}

HostInnerLeaves == {[tag |-> "Int32", v |-> 3], [tag |-> "Capability"]}

\* What the host sends: leaves, and arrays of leaves and of arrays.
HostValues == HostLeaves \cup ArraysOf(HostLeaves \cup ArraysOf(HostInnerLeaves))

RECURSIVE HostRecord(_, _), HostRecord_elems(_, _, _)
HostRecord_elems(x, heap, ptrs) ==
    IF x = <<>>
    THEN [ptrs |-> ptrs, heap |-> heap]
    ELSE LET r == HostRecord(Head(x), heap)
             h == Append(r.heap, [kind |-> "box", obj |-> r.object])
         IN  HostRecord_elems(Tail(x), h, Append(ptrs, Len(h)))

\* The ffi::Dart_CObject the host builds for a value, and the host memory
\* it points into.
HostRecord(x, heap) ==
    CASE x.tag \in UnimplementedTags ->
           [object |-> [type_ |-> x.tag, value |-> [as_bool |-> FALSE]], heap |-> heap]
      [] x.tag = "Array" ->
           LET boxes == HostRecord_elems(x.v, heap, <<>>)
               len == Len(boxes.ptrs)
               h == IF len = 0 THEN boxes.heap
                    ELSE Append(boxes.heap, [kind |-> "slice", ptrs |-> boxes.ptrs])
               ptr == IF len = 0 THEN Dangling ELSE Len(h)
           IN  [object |-> [type_ |-> "Array",
                            value |-> [as_array |-> [length |-> len, values |-> ptr]]],
                heap |-> h]
      [] OTHER -> into_leak(x, heap)

\* The host holds a record that no native code has seen yet.
FromHostInit ==
    /\ co_self = [tag |-> "Null"]
    /\ \E x \in HostValues :
           /\ co_object = HostRecord(x, <<>>).object
           /\ co_heap = HostRecord(x, <<>>).heap
    /\ co_back = [tag |-> "none"]
    /\ co_pc = "host"
    /\ co_lock = [type_ |-> "none"]

\* CObject::from on the record of the host.
Call_from_host ==
    /\ co_pc = "host"
    /\ co_back' = from(co_object, co_heap)
    /\ co_pc' = "ingested_host"
    /\ UNCHANGED <<co_self, co_heap, co_object, co_lock>>
    /\ CoFrame

FromHostNext == Call_from_host

\* C25: CObject::from panics whenever the record of the host, or an element
\* of an array in it at any depth, has the tag Unsupported, NumberOfTypes or
\* Capability; it returns no partial or substitute value.
C25_FromPanicsOnUnimplemented ==
    (co_pc = "ingested_host" /\ HasUnimplementedTag(co_object, co_heap)) =>
        co_back = [tag |-> "panic"]

\* CObject::from has run on an array whose second element is an array with
\* a Capability record behind an Int32 record.
C25_Witness ==
    /\ co_pc = "ingested_host"
    /\ co_object.type_ = "Array"
    /\ co_object.value.as_array.length = 2
    /\ LET outer == co_heap[co_object.value.as_array.values].ptrs
           first == co_heap[outer[1]].obj
           second == co_heap[outer[2]].obj
       IN  /\ first.type_ = "Int32"
           /\ second.type_ = "Array"
           /\ second.value.as_array.length = 2
           /\ co_heap[co_heap[second.value.as_array.values].ptrs[1]].obj.type_ = "Int32"
           /\ co_heap[co_heap[second.value.as_array.values].ptrs[2]].obj.type_ = "Capability"
    /\ co_back = [tag |-> "panic"]

(***************************************************************************)
(* lib.rs: catch_panic_hook, catch_async_panic; dart_handle.rs: Error      *)
(*                                                                         *)
(* A wrapped function is described by how it ends: it returns, it leaves   *)
(* through Dart_PropagateError (dart_unwrap!), or it panics with a payload *)
(* (a String, a &'static str, or a value of another type).                 *)
(***************************************************************************)
\* The bytes of panic messages: NUL, 'X', 'Y'.
MsgBytes == {0, 88, 89}
Msgs == SeqsUpTo(MsgBytes, MaxMsgLen)

\* "Panic of unknown nature in Rust code!"
FallbackMsg ==
    <<80, 97, 110, 105, 99, 32, 111, 102, 32, 117, 110, 107, 110, 111, 119, 110,
      32, 110, 97, 116, 117, 114, 101, 32, 105, 110, 32, 82, 117, 115, 116, 32,
      99, 111, 100, 101, 33>>

Payloads ==
    [type : {"String", "&str"}, msg : Msgs] \cup {[type |-> "other", msg |-> <<>>]}

\* The synchronous functions handed to catch_panic_hook.
SyncFunctions ==
    {[kind |-> "return"], [kind |-> "propagate_error"]}
    \cup {[kind |-> "panic", payload |-> pl] : pl \in Payloads}

\* The asynchronous handlers handed to catch_async_panic; posted is what
\* the handler's own post of a reply returned, if it posted.
AsyncFunctions ==
    {[kind |-> "return", posted |-> r] : r \in {"none", "true", "false"}}
    \cup {[kind |-> "panic", payload |-> pl] : pl \in Payloads}

\* ffi::Dart_NewApiError(msg): the host's Api error handle for the C string.
Dart_NewApiError(mem) ==
    [raw |-> 1, isError |-> TRUE, isUnhandledException |-> FALSE, isApi |-> TRUE,
     isCompilation |-> FALSE, isFatal |-> FALSE, msg |-> CStr_from_ptr(mem)]

\* Error::new_api.
new_api(message) ==
    LET cstring == CString_new(message)
    IN  IF cstring.tag = "Err"
        THEN [tag |-> "Err", kind |-> "NulError"]
        ELSE LET handle == UnverifiedDartHandle_new(Dart_NewApiError(cstring.mem))
             IN  IF handle.tag = "panic" THEN handle
                 ELSE [tag |-> "Ok",
                       value |-> [handle |-> handle.handle, kind |-> "Api"]]

\* A variant of propagate_error in which Dart_PropagateError comes back and
\* the call returns.
propagate_error_returns(self) == [exit |-> "return", created |-> Some(self)]

\* Error::propagate_error: ffi::Dart_PropagateError does not return for an
\* error handle; had it returned, panic!("This should not happen!").
propagate_error(self) ==
    IF self.handle.isError
    THEN [exit |-> "propagate_error", created |-> Some(self)]
    ELSE [exit |-> "panic", created |-> Some(self)]

\* catch_panic_hook: how control leaves it, and the Error it created.
catch_panic_hook(f) ==
    IF f.kind = "return" THEN [exit |-> "return", created |-> None]
    ELSE IF f.kind = "propagate_error" THEN [exit |-> "propagate_error", created |-> None]
    ELSE \* catch_unwind gave Err(e)
         LET e == f.payload
             msg == IF e.type = "String" THEN e.msg
                    ELSE IF e.type = "&str" THEN e.msg
                    ELSE FallbackMsg
             error == new_api(msg)
         IN  IF error.tag # "Ok"
             THEN [exit |-> "panic", created |-> None]     \* .unwrap()
             ELSE propagate_error(error.value)

\* The messages the host delivers to a native port: a record and the host
\* memory it points into.
Unsupported == [type_ |-> "Unsupported", value |-> [as_bool |-> FALSE]]
HostMessages ==
    {[object |-> [type_ |-> t, value |-> [as_bool |-> FALSE]], heap |-> <<>>] :
        t \in {"Null", "Unsupported", "NumberOfTypes", "Capability"}}
    \cup {into_leak(x, <<>>) :
            x \in {[tag |-> "Array", v |-> <<[tag |-> "Int32", v |-> 3],
                                             [tag |-> "SendPort", v |-> [id |-> 2, origin_id |-> 1]]>>],
                   [tag |-> "String", v |-> <<97>>]}}
    \cup {[object |-> [type_ |-> "Array", value |-> [as_array |-> [length |-> 2, values |-> 3]]],
           heap |-> <<[kind |-> "box", obj |-> [type_ |-> "Int32", value |-> [as_int32 |-> 3]]],
                      [kind |-> "box", obj |-> Unsupported],
                      [kind |-> "slice", ptrs |-> <<1, 2>>]>>]}

\* A variant of catch_async_panic that builds the handler's arguments before
\* entering catch_unwind.
catch_async_panic_args_outside(func, port, message) ==
    IF \/ from(message.object, message.heap).tag = "panic"
       \/ from_port(port).tag = "None"
    THEN [exit |-> "panic", created |-> None]
    ELSE IF func.kind = "panic"
    THEN [exit |-> "abort", created |-> None]
    ELSE [exit |-> "return", created |-> None]

\* catch_async_panic: the closure run under catch_unwind ingests the message,
\* unwraps the port and calls the handler; Err of any of them aborts.
catch_async_panic(func, port, message) ==
    LET result ==
            IF from(message.object, message.heap).tag = "panic" THEN "Err"
            ELSE IF from_port(port).tag = "None" THEN "Err"
            ELSE IF func.kind = "panic" THEN "Err"
            ELSE "Ok"
    IN  IF result = "Err"
        THEN [exit |-> "abort", created |-> None]     \* std::process::abort()
        ELSE [exit |-> "return", created |-> None]

\* What a wrapper's exit means at the extern "C" function the host called:
\* a panic that reaches it either aborts the process or unwinds into the
\* host's frames, as the build decides.
BoundaryExits(exit) ==
    IF exit = "panic" THEN {"abort", "unwind_into_host"} ELSE {exit}

DispInit ==
    /\ process = "running"
    /\ disp_ret = [op |-> "none"]

AfterExit(exit) ==
    CASE exit = "abort"            -> "aborted"
      [] exit = "unwind_into_host" -> "corrupted"
      [] OTHER                     -> "running"

\* The host calls a synchronous native function: the extern "C" wrapper of
\* export_dart_functions! runs catch_panic_hook.
Call_catch_panic_hook ==
    \E f \in SyncFunctions :
        LET r == catch_panic_hook(f)
        IN  \E exit \in BoundaryExits(r.exit) :
                /\ process = "running"
                /\ disp_ret' = [op |-> "catch_panic_hook", f |-> f,
                                hook_exit |-> r.exit, created |-> r.created,
                                exit |-> exit]
                /\ process' = AfterExit(exit)
                /\ DispFrame

\* The host delivers a message to a native port: the extern "C" handler of
\* export_dart_functions! runs catch_async_panic.
Call_catch_async_panic ==
    \E func \in AsyncFunctions, port \in PortIds, message \in HostMessages :
        LET r == catch_async_panic(func, port, message)
        IN  \E exit \in BoundaryExits(r.exit) :
                /\ process = "running"
                /\ disp_ret' = [op |-> "catch_async_panic", f |-> func,
                                port |-> port, message |-> message,
                                hook_exit |-> r.exit, created |-> r.created,
                                exit |-> exit]
                /\ process' = AfterExit(exit)
                /\ DispFrame

DispNext == Call_catch_panic_hook \/ Call_catch_async_panic

\* Whether the bytes of x occur in m, in order and in one piece.
Contains(m, x) ==
    \E i \in 0..(Len(m) - Len(x)) : SubSeq(m, i + 1, i + Len(x)) = x

\* C4: when the function wrapped by catch_panic_hook panics with a String or
\* &str payload X, an Api error whose message contains X is created and
\* propagated to the host; for a payload of another type the message is the
\* fallback text.
C4_PanicBecomesApiError ==
    (disp_ret.op = "catch_panic_hook" /\ disp_ret.f.kind = "panic") =>
        /\ disp_ret.hook_exit = "propagate_error"
        /\ disp_ret.created.tag = "Some"
        /\ disp_ret.created.value.kind = "Api"
        /\ disp_ret.created.value.handle.isApi
        /\ IF disp_ret.f.payload.type \in {"String", "&str"}
           THEN Contains(disp_ret.created.value.handle.msg, disp_ret.f.payload.msg)
           ELSE disp_ret.created.value.handle.msg = FallbackMsg

\* C5: whatever the payload of the panic, no panic unwinds out of
\* catch_panic_hook: control leaves the wrapper by host error propagation.
C5_NoPanicEscapes ==
    (disp_ret.op = "catch_panic_hook" /\ disp_ret.f.kind = "panic") =>
        /\ disp_ret.hook_exit = "propagate_error"
        /\ disp_ret.exit = "propagate_error"

\* C6: a panic of the handler run by catch_async_panic, or of the ingestion
\* of the message or the unwrapping of the port before it, aborts the
\* process: no Api error is created or propagated and the callback does not
\* return; a handler whose post returned false returns and the process runs on.
C6_AsyncPanicAborts ==
    disp_ret.op = "catch_async_panic" =>
        LET panicked ==
                \/ disp_ret.f.kind = "panic"
                \/ HasUnimplementedTag(disp_ret.message.object, disp_ret.message.heap)
                \/ disp_ret.port = ILLEGAL_PORT
        IN  /\ panicked =>
                /\ disp_ret.hook_exit = "abort"
                /\ disp_ret.exit = "abort"
                /\ disp_ret.created = None
                /\ process = "aborted"
            /\ (~panicked /\ disp_ret.f.posted = "false") =>
                /\ disp_ret.exit = "return"
                /\ process = "running"

\* A message with an unimplemented tag nested in an array has reached a
\* handler that would have returned, and the process was aborted.
C6_Witness ==
    /\ disp_ret.op = "catch_async_panic"
    /\ disp_ret.f.kind = "return"
    /\ disp_ret.port # ILLEGAL_PORT
    /\ disp_ret.message.object.type_ = "Array"
    /\ HasUnimplementedTag(disp_ret.message.object, disp_ret.message.heap)
    /\ disp_ret.exit = "abort"
    /\ process = "aborted"

\* C16: after the wrapped synchronous function has panicked,
\* catch_panic_hook does not return normally: control leaves it through the
\* host's error propagation, or through a panic of its own, and the native
\* entry point does not complete as an ordinary return.
C16_NoReturnAfterPanic ==
    (disp_ret.op = "catch_panic_hook" /\ disp_ret.f.kind = "panic") =>
        /\ disp_ret.hook_exit \in {"propagate_error", "panic"}
        /\ disp_ret.exit # "return"

\* A function has panicked with a message and the error was propagated.
C16_Witness ==
    /\ disp_ret.op = "catch_panic_hook"
    /\ disp_ret.f.kind = "panic"
    /\ disp_ret.f.payload.type = "&str"
    /\ disp_ret.hook_exit = "propagate_error"
    /\ disp_ret.created.tag = "Some"

(***************************************************************************)
(* lib.rs: catch_panic_hook_async                                          *)
(*                                                                         *)
(* The closure handed to catch_panic_hook enters a host scope, registers a *)
(* native port for the handler, makes a SendPort for it and sets it as the *)
(* return value of the call.  The host's answers (the id of the native     *)
(* port, the handle of the SendPort) are inputs.                           *)
(***************************************************************************)
\* The service names export_dart_functions! passes: "s" and "s\0".
ServiceNames == {<<115>>, <<115, 0>>}

\* dart_handle::enter_scope / exit_scope on the host's scope depth.
enter_scope(depth) == depth + 1
exit_scope(depth) == depth - 1

\* ffi::Dart_NewSendPort(port): `outcome` is how the host answers; a handle
\* that is no error is a SendPort for that id.
Dart_NewSendPort(port, outcome) ==
    IF outcome.raw # 0 /\ ~outcome.isError
    THEN outcome @@ [send_port |-> port]
    ELSE outcome

\* A variant of the closure that makes the SendPort for the id after the
\* service port's.
hook_async_body_other_port(name, port, outcome, depth) ==
    LET d == enter_scope(depth)
        cname == CString_new(name)
        service_port == new_native(port)
        sp == Port_new(port + 1, Dart_NewSendPort(port + 1, outcome))
    IN  IF cname.tag = "Err" \/ service_port.tag = "None"
        THEN [exit |-> "panic", depth |-> exit_scope(d), ret |-> None]
        ELSE IF sp.tag # "Ok"
        THEN [exit |-> "panic", depth |-> d, ret |-> None]
        ELSE [exit |-> "return", depth |-> exit_scope(d), ret |-> Some(sp.handle)]

\* The closure of catch_panic_hook_async: how control leaves it, the scope
\* depth at that moment and the return value it set.  `port` is the id
\* ffi::Dart_NewNativePort returned, `outcome` the host's answer to
\* Dart_NewSendPort.
hook_async_body(name, port, outcome, depth) ==
    LET d == enter_scope(depth)
        cname == CString_new(name)
        service_port == new_native(port)
        sp == Port_new(port, Dart_NewSendPort(port, outcome))
    IN  IF cname.tag = "Err"
        THEN \* unwrap_or_else: exit_scope(), panic!
             [exit |-> "panic", depth |-> exit_scope(d), ret |-> None]
        ELSE IF service_port.tag = "None"
        THEN \* unwrap_or_else: exit_scope(), panic!
             [exit |-> "panic", depth |-> exit_scope(d), ret |-> None]
        ELSE IF sp.tag # "Ok"
        THEN \* Port::new(..).unwrap() panics
             [exit |-> "panic", depth |-> d, ret |-> None]
        ELSE \* x.set_return(send_port_instance); exit_scope()
             [exit |-> "return", depth |-> exit_scope(d), ret |-> Some(sp.handle)]

\* The panics of the closure carry a formatted String.
AsyncPanicPayload == [type |-> "String", msg |-> <<88>>]

AsyncInit ==
    /\ async_ret = [op |-> "none"]
    /\ invoked = None

\* The host calls an asynchronous native function: the extern "C" wrapper of
\* export_dart_functions! runs catch_panic_hook_async, i.e. catch_panic_hook
\* around the closure.  The host registers the handler when it hands out a
\* port id, the next unused one; the scope depth is counted from the depth
\* at which the closure is entered.
Call_catch_panic_hook_async ==
    \E name \in ServiceNames, f \in Handlers, outcome \in SendPortOutcomes,
       port \in {ILLEGAL_PORT} \cup
                 {p \in 1..MaxPortId : p = Cardinality(DOMAIN native_ports) + 1} :
        LET depth == 0
            b == hook_async_body(name, port, outcome, depth)
            asked == CString_new(name).tag = "Ok"
            h == catch_panic_hook(IF b.exit = "return" THEN [kind |-> "return"]
                                  ELSE [kind |-> "panic", payload |-> AsyncPanicPayload])
        IN  /\ native_ports' =
                  IF asked /\ port # ILLEGAL_PORT
                  THEN [p \in DOMAIN native_ports \cup {port} |->
                          IF p = port
                          THEN [name |-> name, handler |-> f,
                                handle_concurrently |-> new_native_handle_concurrently]
                          ELSE native_ports[p]]
                  ELSE native_ports
            /\ ports' = IF asked /\ new_native(port).tag = "Some"
                        THEN ports \cup {new_native(port).value.port}
                        ELSE ports
            /\ async_ret' = [op |-> "catch_panic_hook_async", name |-> name, f |-> f,
                             before |-> DOMAIN native_ports,
                             native_port |-> IF asked THEN Some(port) ELSE None,
                             outcome |-> outcome,
                             depth |-> depth, body_exit |-> b.exit,
                             body_depth |-> b.depth, ret |-> b.ret,
                             exit |-> h.exit]
            /\ UNCHANGED <<port_ret, invoked>>
            /\ AsyncFrame

\* Dart code sends a message to the SendPort the last call returned: the host
\* runs the handler registered for the port the SendPort names.
Host_send ==
    /\ async_ret.op = "catch_panic_hook_async"
    /\ async_ret.ret.tag = "Some"
    /\ async_ret.ret.value.send_port \in DOMAIN native_ports
    /\ invoked' = Some([sent_to |-> async_ret.ret.value,
                        port |-> async_ret.ret.value.send_port,
                        handler |-> native_ports[async_ret.ret.value.send_port].handler])
    /\ UNCHANGED <<native_ports, ports, port_ret, async_ret>>
    /\ AsyncFrame

AsyncNext == Call_catch_panic_hook_async \/ Host_send

\* C17: on every path through the closure of catch_panic_hook_async the
\* enter_scope is matched by an exit_scope before control leaves it: the
\* scope depth on leaving equals the depth on entering.
C17_ScopeBalanced ==
    async_ret.op = "catch_panic_hook_async" =>
        async_ret.body_depth = async_ret.depth

\* C18: when catch_panic_hook_async completes without error, exactly one new
\* native port has been registered, with the supplied handler; the return
\* value is a SendPort handle for that port's id; and a message sent to
\* that SendPort reaches the handler.
C18_AsyncRegistersPort ==
    (async_ret.op = "catch_panic_hook_async" /\ async_ret.exit = "return") =>
        /\ async_ret.native_port.tag = "Some"
        /\ LET p == async_ret.native_port.value
           IN  /\ p # ILLEGAL_PORT
               /\ p \notin async_ret.before
               /\ DOMAIN native_ports = async_ret.before \cup {p}
               /\ native_ports[p].handler = async_ret.f
               /\ async_ret.ret.tag = "Some"
               /\ ~async_ret.ret.value.isError
               /\ async_ret.ret.value.send_port = p
               /\ (invoked.tag = "Some" /\ invoked.value.sent_to = async_ret.ret.value) =>
                      /\ invoked.value.port = p
                      /\ invoked.value.handler = async_ret.f

\* A second service was registered, and a message to its SendPort has
\* reached its handler.
C18_Witness ==
    /\ async_ret.op = "catch_panic_hook_async"
    /\ async_ret.exit = "return"
    /\ async_ret.before # {}
    /\ invoked.tag = "Some"
    /\ invoked.value.sent_to = async_ret.ret.value
    /\ invoked.value.port = async_ret.native_port.value
    /\ invoked.value.handler = async_ret.f

(***************************************************************************)
(* dart_handle.rs: NativePort::new_native; lib.rs: catch_async_panic, run  *)
(* by the host for the messages of a native port                           *)
(*                                                                         *)
(* The host starts the handler of a port for a message on one of its       *)
(* threads.  For a port registered with handle_concurrently = false it     *)
(* waits until the port's running handler has returned.  The handler is    *)
(* catch_async_panic around the user's function; it is followed in two     *)
(* steps so that invocations can overlap.                                  *)
(***************************************************************************)
\* The messages the host delivers.
MessageIds == {"m1", "m2"}

\* What a delivered message carries.
DeliveredMessages ==
    {m \in HostMessages : m.heap = <<>> /\ m.object.type_ \in {"Null", "Unsupported"}}

HandlerInit == in_progress = <<>>

Running(port) ==
    {i \in DOMAIN in_progress :
        in_progress[i].port = port /\ in_progress[i].pc # "returned"}

\* NativePort::new_native on the next port id of the host, or on
\* ILLEGAL_PORT when the host could not create the port.
Handler_new_native ==
    \E name \in PortNames,
       port \in {ILLEGAL_PORT} \cup
                {q \in 1..MaxPortId : q = Cardinality(DOMAIN native_ports) + 1} :
        LET r == new_native(port)
        IN  /\ process = "running"
            /\ native_ports' =
                  IF port = ILLEGAL_PORT THEN native_ports
                  ELSE [p \in DOMAIN native_ports \cup {port} |->
                          IF p = port
                          THEN [name |-> name, handler |-> "handler_a",
                                handle_concurrently |-> new_native_handle_concurrently]
                          ELSE native_ports[p]]
            /\ port_ret' = [op |-> "new_native", arg |-> port, ret |-> r]
            /\ ports' = IF r.tag = "Some" THEN ports \cup {r.value.port} ELSE ports
            /\ UNCHANGED <<disp_vars, in_progress>>
            /\ HandlerFrame

\* The host starts the handler of a port for a message not yet delivered.
Host_deliver(port) ==
    \E i \in MessageIds \ DOMAIN in_progress, message \in DeliveredMessages :
        /\ process = "running"
        /\ port \in DOMAIN native_ports
        /\ native_ports[port].handle_concurrently \/ Running(port) = {}
        /\ in_progress' =
              [j \in DOMAIN in_progress \cup {i} |->
                  IF j = i
                  THEN [port |-> port, handler |-> native_ports[port].handler,
                        message |-> message, pc |-> "entered"]
                  ELSE in_progress[j]]
        /\ UNCHANGED <<port_vars, disp_vars>>
        /\ HandlerFrame

Host_deliver_any == \E port \in 1..MaxPortId : Host_deliver(port)

\* catch_async_panic up to the call of func: CObject::from(*message) and
\* Port::from_port(port).unwrap().  It takes no lock and waits for nothing.
Handler_ingest(i) ==
    /\ process = "running"
    /\ i \in DOMAIN in_progress
    /\ in_progress[i].pc = "entered"
    /\ LET inv == in_progress[i]
           ok == /\ from(inv.message.object, inv.message.heap).tag # "panic"
                 /\ from_port(inv.port).tag = "Some"
       IN  IF ok
           THEN /\ in_progress' = [in_progress EXCEPT ![i].pc = "func"]
                /\ UNCHANGED disp_vars
           ELSE /\ process' = AfterExit("abort")
                /\ disp_ret' = [op |-> "catch_async_panic", port |-> inv.port,
                                message |-> inv.message, exit |-> "abort"]
                /\ UNCHANGED in_progress
    /\ UNCHANGED port_vars
    /\ HandlerFrame

Handler_ingest_any == \E i \in MessageIds : Handler_ingest(i)

\* func returns or panics, and catch_async_panic returns or aborts.
Handler_finish(i) ==
    \E func \in {f \in AsyncFunctions :
                    f.kind = "panic" => f.payload.type = "other"} :
        /\ process = "running"
        /\ i \in DOMAIN in_progress
        /\ in_progress[i].pc = "func"
        /\ LET inv == in_progress[i]
               r == catch_async_panic(func, inv.port, inv.message)
           IN  /\ process' = AfterExit(r.exit)
               /\ disp_ret' = [op |-> "catch_async_panic", port |-> inv.port,
                               message |-> inv.message, exit |-> r.exit]
               /\ in_progress' = IF r.exit = "return"
                                 THEN [in_progress EXCEPT ![i].pc = "returned"]
                                 ELSE in_progress
        /\ UNCHANGED port_vars
        /\ HandlerFrame

Handler_finish_any == \E i \in MessageIds : Handler_finish(i)

HandlerNext ==
    \/ Handler_new_native \/ Host_deliver_any
    \/ Handler_ingest_any \/ Handler_finish_any

\* C22: every handler is registered with handle_concurrently = true, and
\* the handling layer makes no invocation wait for another: while the
\* process runs, the host may start the handler of any port for a further
\* message whatever invocations are in progress, and every invocation in
\* progress can take its next step.
C22_HandlersNeverSerialized ==
    process = "running" =>
        /\ \A port \in DOMAIN native_ports : native_ports[port].handle_concurrently
        /\ \A port \in DOMAIN native_ports :
               MessageIds \ DOMAIN in_progress # {} => ENABLED Host_deliver(port)
        /\ \A i \in DOMAIN in_progress :
               /\ in_progress[i].pc = "entered" => ENABLED Handler_ingest(i)
               /\ in_progress[i].pc = "func" => ENABLED Handler_finish(i)

\* Two invocations of the same handler for two messages of the same port
\* are inside func at the same time.
C22_Witness ==
    /\ process = "running"
    /\ DOMAIN in_progress = {"m1", "m2"}
    /\ in_progress["m1"].port = in_progress["m2"].port
    /\ in_progress["m1"].handler = in_progress["m2"].handler
    /\ in_progress["m1"].pc = "func"
    /\ in_progress["m2"].pc = "func"

(***************************************************************************)
(* dart_cobject.rs: TypedDataArray::create and the life of its buffer      *)
(*                                                                         *)
(* One natively-owned external buffer is followed from create to the       *)
(* host's collector.  create leaks two blocks: the data and the peer box   *)
(* that holds the pointer to the data.  The descriptor                     *)
(* (Dart_ExternalTypedData: data, peer, callback) is plain data; it is     *)
(* held by native values of four forms:                                    *)
(*   typed   TypedDataArray<T>          (Copy)                             *)
(*   dyn     TypedDataArray<dyn Any>                                       *)
(*   cobject CObject::TypedData                                            *)
(*   record  ffi::Dart_CObject with the ExternalTypedData tag              *)
(***************************************************************************)
TypedDataTypes == {"Uint8", "Int32"}
Forms == {"typed", "dyn", "cobject", "record"}

Holders == buf_native["typed"] + buf_native["dyn"] + buf_native["cobject"]
           + buf_native["record"]

Gain(form) == [buf_native EXCEPT ![form] = @ + 1]
Lose(form) == [buf_native EXCEPT ![form] = @ - 1]
Move(a, b) == [buf_native EXCEPT ![a] = @ - 1, ![b] = @ + 1]

\* A variant of DropNative in which dropping the value releases the buffer,
\* as a Drop impl on TypedDataArray would.
DropNative_frees(mem) == [data |-> "freed", peer |-> "freed"]

\* What dropping a TypedDataArray, a CObject::TypedData or a Dart_CObject
\* does to the buffer: none of them implements Drop for it, so nothing.
DropNative(mem) == mem

\* The finalizer `free` that create registers: Box::from_raw(*ptr) and drop,
\* then Box::from_raw(ptr) and drop.  Gives the memory and the faults after it.
free(mem, faults) ==
    [mem |-> [data |-> "freed", peer |-> "freed"],
     faults |-> faults
                \cup (IF mem.peer = "freed" THEN {"use_after_free"} ELSE {})
                \cup (IF mem.data = "freed" \/ mem.peer = "freed"
                      THEN {"double_free"} ELSE {})]

BufInit ==
    /\ buf_mem = [data |-> "none", peer |-> "none"]
    /\ buf_type = "none"
    /\ buf_native = [f \in Forms |-> 0]
    /\ buf_host = 0
    /\ buf_posted = 0
    /\ buf_finalized = 0
    /\ buf_faults = {}
    /\ buf_op = "none"

\* TypedDataArray::<T>::create(data).
Call_create ==
    \E T \in TypedDataTypes :
        /\ buf_mem.data = "none"
        /\ buf_mem' = [data |-> "live", peer |-> "live"]
        /\ buf_type' = T
        /\ buf_native' = Gain("typed")
        /\ buf_op' = "create"
        /\ UNCHANGED <<buf_host, buf_posted, buf_finalized, buf_faults>>
        /\ BufFrame

\* A TypedDataArray<T> is copied: #[derive(Copy, Clone)].
Call_copy ==
    /\ buf_native["typed"] > 0
    /\ Holders < MaxHolders
    /\ buf_native' = Gain("typed")
    /\ buf_op' = "copy"
    /\ UNCHANGED <<buf_mem, buf_type, buf_host, buf_posted, buf_finalized, buf_faults>>
    /\ BufFrame

\* TypedDataArray<T>::recast.
Call_recast ==
    /\ buf_native["typed"] > 0
    /\ buf_native' = Move("typed", "dyn")
    /\ buf_op' = "recast"
    /\ UNCHANGED <<buf_mem, buf_type, buf_host, buf_posted, buf_finalized, buf_faults>>
    /\ BufFrame

\* TypedDataArray<dyn Any>::cast::<U>: Some when x.type_ == U::TYPE, else
\* None and the value is gone.
Call_cast ==
    \E U \in TypedDataTypes :
        /\ buf_native["dyn"] > 0
        /\ IF buf_type = U
           THEN /\ buf_native' = Move("dyn", "typed")
                /\ buf_mem' = buf_mem
           ELSE /\ buf_native' = Lose("dyn")
                /\ buf_mem' = DropNative(buf_mem)
        /\ buf_op' = "cast"
        /\ UNCHANGED <<buf_type, buf_host, buf_posted, buf_finalized, buf_faults>>
        /\ BufFrame

\* CObject::TypedData(x) around a TypedDataArray<dyn Any>.
Call_wrap ==
    /\ buf_native["dyn"] > 0
    /\ buf_native' = Move("dyn", "cobject")
    /\ buf_op' = "wrap"
    /\ UNCHANGED <<buf_mem, buf_type, buf_host, buf_posted, buf_finalized, buf_faults>>
    /\ BufFrame

\* CObject::into_leak: the CObject is consumed, its record remains.
Call_buf_into_leak ==
    /\ buf_native["cobject"] > 0
    /\ buf_native' = Move("cobject", "record")
    /\ buf_op' = "into_leak"
    /\ UNCHANGED <<buf_mem, buf_type, buf_host, buf_posted, buf_finalized, buf_faults>>
    /\ BufFrame

\* CObject::as_non_leak: a record beside the CObject, which stays.
Call_buf_as_non_leak ==
    /\ buf_native["cobject"] > 0
    /\ Holders < MaxHolders
    /\ buf_native' = Gain("record")
    /\ buf_op' = "as_non_leak"
    /\ UNCHANGED <<buf_mem, buf_type, buf_host, buf_posted, buf_finalized, buf_faults>>
    /\ BufFrame

\* Port::post_cobject(obj): obj.into_leak() is posted and the record dropped.
\* The host answers true (it now holds an object with the finalizer) or false.
Call_post_cobject ==
    \E accepted \in BOOLEAN :
        /\ buf_native["cobject"] > 0
        /\ accepted => buf_posted < MaxPosts
        /\ buf_native' = Lose("cobject")
        /\ buf_mem' = DropNative(buf_mem)
        /\ buf_host' = IF accepted THEN buf_host + 1 ELSE buf_host
        /\ buf_posted' = IF accepted THEN buf_posted + 1 ELSE buf_posted
        /\ buf_op' = IF accepted THEN "post_true" ELSE "post_false"
        /\ UNCHANGED <<buf_type, buf_finalized, buf_faults>>
        /\ BufFrame

\* Port::post_raw_cobject(&mut record), also what CObjectLock::post_onto
\* does with its record: the record stays with the caller.
Call_post_raw_cobject ==
    \E accepted \in BOOLEAN :
        /\ buf_native["record"] > 0
        /\ accepted => buf_posted < MaxPosts
        /\ buf_host' = IF accepted THEN buf_host + 1 ELSE buf_host
        /\ buf_posted' = IF accepted THEN buf_posted + 1 ELSE buf_posted
        /\ buf_op' = IF accepted THEN "post_true" ELSE "post_false"
        /\ UNCHANGED <<buf_mem, buf_type, buf_native, buf_finalized, buf_faults>>
        /\ BufFrame

\* A native value holding the descriptor goes out of scope.
Call_drop ==
    \E form \in Forms :
        /\ buf_native[form] > 0
        /\ buf_native' = Lose(form)
        /\ buf_mem' = DropNative(buf_mem)
        /\ buf_op' = "drop"
        /\ UNCHANGED <<buf_type, buf_host, buf_posted, buf_finalized, buf_faults>>
        /\ BufFrame

\* Index / IndexMut on a TypedDataArray<T>: the data block is read.
Call_index ==
    /\ buf_native["typed"] > 0
    /\ buf_faults' = IF buf_mem.data = "freed"
                     THEN buf_faults \cup {"use_after_free"} ELSE buf_faults
    /\ buf_op' = "index"
    /\ UNCHANGED <<buf_mem, buf_type, buf_native, buf_host, buf_posted, buf_finalized>>
    /\ BufFrame

\* The host's collector reclaims one object made from the buffer and calls
\* the finalizer with the peer.
Host_collect ==
    /\ buf_host > 0
    /\ buf_host' = buf_host - 1
    /\ LET r == free(buf_mem, buf_faults)
       IN  /\ buf_mem' = r.mem
           /\ buf_faults' = r.faults
    /\ buf_finalized' = buf_finalized + 1
    /\ buf_op' = "finalizer"
    /\ UNCHANGED <<buf_type, buf_native, buf_posted>>
    /\ BufFrame

BufNext ==
    \/ Call_create \/ Call_copy \/ Call_recast \/ Call_cast \/ Call_wrap
    \/ Call_buf_into_leak \/ Call_buf_as_non_leak
    \/ Call_post_cobject \/ Call_post_raw_cobject
    \/ Call_drop \/ Call_index \/ Host_collect

\* C2: whatever native operations precede it, the host's collection of
\* every object made from the buffer calls the finalizer at most once, and
\* the buffer's memory is not touched after that call.
C2_FinalizerAtMostOnce ==
    /\ buf_finalized <= 1
    /\ buf_faults = {}

\* C9: after create no native operation frees the buffer: a step in which
\* the data block or the peer box stops being allocated is the finalizer's.
C9_OnlyFinalizerFrees ==
    [][(\/ buf_mem.data = "live" /\ buf_mem'.data # "live"
        \/ buf_mem.peer = "live" /\ buf_mem'.peer # "live")
       => buf_op' = "finalizer"]_vars

\* Every native value that held the buffer is gone, the last post was
\* refused, and the buffer is still allocated.
C9_Witness ==
    /\ buf_op = "post_false"
    /\ Holders = 0
    /\ buf_host = 0
    /\ buf_mem = [data |-> "live", peer |-> "live"]

(***************************************************************************)
(* dart_cobject.rs: the ownership mode of a typed-data value               *)
(*                                                                         *)
(* One typed-data value is followed from its construction through cast,    *)
(* recast, the CObject::TypedData wrapper, into_leak, as_non_leak and      *)
(* CObject::from.  A TypedDataArray is [variant, desc]; a                  *)
(* TypedDataArray<T> also carries its element type T.                      *)
(***************************************************************************)
\* A variant of cast that always answers with the WithFinalizer variant.
cast_as_external(self, T) ==
    IF self.desc.type_ = T
    THEN Some([variant |-> "WithFinalizer", desc |-> self.desc, elem |-> T])
    ELSE None

\* TypedDataArray::<dyn Any>::cast::<T>.
cast(self, T) ==
    IF self.variant = "WithFinalizer"
    THEN IF self.desc.type_ = T
         THEN Some([variant |-> "WithFinalizer", desc |-> self.desc, elem |-> T])
         ELSE None
    ELSE IF self.desc.type_ = T
         THEN Some([variant |-> "WithoutFinalizer", desc |-> self.desc, elem |-> T])
         ELSE None

\* TypedDataArray::<T>::recast: new_external for WithFinalizer, new for
\* WithoutFinalizer.
recast(self) ==
    IF self.variant = "WithFinalizer"
    THEN [variant |-> "WithFinalizer", desc |-> self.desc]
    ELSE [variant |-> "WithoutFinalizer", desc |-> self.desc]

\* TypedDataArray::<T>::create(data) for a Vec of the given length.
create(T, len) ==
    [variant |-> "WithFinalizer", elem |-> T,
     desc |-> [type_ |-> T, length |-> len, data |-> "data_1", peer |-> "peer_1",
               callback |-> "free"]]

\* The typed-data records a host sends: ffi::Dart_TypedData has type_, length
\* and values; ffi::Dart_ExternalTypedData also has data, peer and callback.
HostTypedRecords ==
    {[type_ |-> "TypedData",
      value |-> [as_typed_data |-> [type_ |-> T, length |-> len,
                                    values |-> "host_data_1"]]] :
        T \in TypedDataTypes, len \in 0..MaxArrayLen}
    \cup
    {[type_ |-> "ExternalTypedData",
      value |-> [as_external_typed_data |->
                    [type_ |-> T, length |-> len, data |-> "host_data_1",
                     peer |-> "host_peer_1", callback |-> "host_callback"]]] :
        T \in TypedDataTypes, len \in 0..MaxArrayLen}

\* The variant a value has, or the one its record's tag stands for.
Ownership(x) ==
    CASE x.form \in {"typed", "dyn"} -> x.a.variant
      [] x.form = "cobject"          -> x.c.v.variant
      [] x.form = "record"           ->
           IF x.object.type_ = "TypedData" THEN "WithoutFinalizer"
           ELSE IF x.object.type_ = "ExternalTypedData" THEN "WithFinalizer"
           ELSE "none"

\* The descriptor a value or record holds.
Descriptor(x) ==
    CASE x.form \in {"typed", "dyn"} -> x.a.desc
      [] x.form = "cobject"          -> x.c.v.desc
      [] x.form = "record"           ->
           IF x.object.type_ = "TypedData" THEN x.object.value.as_typed_data
           ELSE x.object.value.as_external_typed_data

TdInit ==
    /\ td = [form |-> "none"]
    /\ td_lock = [form |-> "none"]
    /\ td_made = "none"
    /\ td_op = [op |-> "none"]

\* TypedDataArray::<T>::create(data).
Td_create ==
    \E T \in TypedDataTypes, len \in 0..MaxArrayLen :
        /\ td.form = "none"
        /\ td' = [form |-> "typed", a |-> create(T, len)]
        /\ td_made' = create(T, len).variant
        /\ td_op' = [op |-> "create"]
        /\ UNCHANGED td_lock
        /\ TdFrame

\* CObject::from on a typed-data record of the host.
Td_from_host ==
    \E object \in HostTypedRecords :
        /\ td.form = "none"
        /\ td' = [form |-> "cobject", c |-> from(object, <<>>)]
        /\ td_made' = from(object, <<>>).v.variant
        /\ td_op' = [op |-> "from_host"]
        /\ UNCHANGED td_lock
        /\ TdFrame

\* x.cast::<T>() on a TypedDataArray<dyn Any>; None leaves the caller with
\* nothing but the copy it had.
Td_cast ==
    \E T \in TypedDataTypes :
        /\ td.form = "dyn"
        /\ LET r == cast(td.a, T)
           IN  /\ td' = IF r.tag = "Some" THEN [form |-> "typed", a |-> r.value] ELSE td
               /\ td_op' = [op |-> "cast", T |-> T, ret |-> r.tag]
        /\ UNCHANGED <<td_lock, td_made>>
        /\ TdFrame

\* x.recast() on a TypedDataArray<T>.
Td_recast ==
    /\ td.form = "typed"
    /\ td' = [form |-> "dyn", a |-> recast(td.a)]
    /\ td_op' = [op |-> "recast"]
    /\ UNCHANGED <<td_lock, td_made>>
    /\ TdFrame

\* CObject::TypedData(x) around a TypedDataArray<dyn Any>.
Td_wrap ==
    /\ td.form = "dyn"
    /\ td' = [form |-> "cobject", c |-> [tag |-> "TypedData", v |-> td.a]]
    /\ td_op' = [op |-> "wrap"]
    /\ UNCHANGED <<td_lock, td_made>>
    /\ TdFrame

\* `if let CObject::TypedData(x) = c` takes the array out again.
Td_unwrap ==
    /\ td.form = "cobject"
    /\ td' = [form |-> "dyn", a |-> td.c.v]
    /\ td_op' = [op |-> "unwrap"]
    /\ UNCHANGED <<td_lock, td_made>>
    /\ TdFrame

\* c.into_leak().
Td_into_leak ==
    /\ td.form = "cobject"
    /\ td' = [form |-> "record", object |-> into_leak(td.c, <<>>).object]
    /\ td_op' = [op |-> "into_leak"]
    /\ UNCHANGED <<td_lock, td_made>>
    /\ TdFrame

\* c.as_non_leak(): the CObject stays, the lock holds a record of it.
Td_as_non_leak ==
    /\ td.form = "cobject"
    /\ td_lock' = [form |-> "record", object |-> as_non_leak(td.c, <<>>).object]
    /\ td_op' = [op |-> "as_non_leak"]
    /\ UNCHANGED <<td, td_made>>
    /\ TdFrame

\* CObject::from on the record.
Td_from ==
    /\ td.form = "record"
    /\ td' = [form |-> "cobject", c |-> from(td.object, <<>>)]
    /\ td_op' = [op |-> "from"]
    /\ UNCHANGED <<td_lock, td_made>>
    /\ TdFrame

TdNext ==
    \/ Td_create \/ Td_from_host \/ Td_cast \/ Td_recast \/ Td_wrap \/ Td_unwrap
    \/ Td_into_leak \/ Td_as_non_leak \/ Td_from

\* C23: the ownership mode of a typed-data value is the one it was
\* constructed with: after any sequence of cast, recast, CObject::from,
\* into_leak and as_non_leak a host-owned value (WithoutFinalizer, tag
\* TypedData) is still host-owned and a natively-owned one (WithFinalizer,
\* tag ExternalTypedData) still natively-owned, and a host-owned buffer has
\* no finalizer in its descriptor.
C23_OwnershipFixed ==
    /\ td.form # "none" =>
           /\ Ownership(td) = td_made
           /\ td_made = "WithoutFinalizer" => "callback" \notin DOMAIN Descriptor(td)
    /\ td_lock.form # "none" =>
           /\ Ownership(td_lock) = td_made
           /\ td_made = "WithoutFinalizer" => "callback" \notin DOMAIN Descriptor(td_lock)

\* A host-owned buffer has been through as_non_leak, into_leak, from and a
\* successful cast.
C23_Witness ==
    /\ td_made = "WithoutFinalizer"
    /\ td_lock.form = "record"
    /\ td.form = "typed"
    /\ td_op.op = "cast"
    /\ td_op.ret = "Some"

(***************************************************************************)
(* dart_cobject.rs: TypedDataArray::create; dart_handle.rs:                *)
(* UnverifiedDartHandle::new_external_typed_data_with_drop                 *)
(*                                                                         *)
(* Both constructors leak the data (Box<[T]>) and a box that holds the     *)
(* pointer to the data, which becomes the peer; each registers its own     *)
(* `free` as the finalizer.  An empty slice has no data block.             *)
(***************************************************************************)
ElementValues == {0, 1}

\* The Vec<T> or Box<[T]> handed to a constructor.
DataVectors == SeqsUpTo(ElementValues, MaxArrayLen)

\* Box::leak(data.into_boxed_slice()) and Box::leak(Box::new(ptr)).
LeakDataAndPeer(data) ==
    [data |-> IF Len(data) = 0 THEN "none" ELSE "live", peer |-> "live"]

\* Box::from_raw(p) and drop, on a block in the given state.
Release(block) == IF block = "none" THEN "none" ELSE "freed"

\* The `free` of TypedDataArray::create: Box::from_raw(*ptr), drop, then
\* Box::from_raw(ptr), drop.
create_free(mem) == [data |-> Release(mem.data), peer |-> Release(mem.peer)]

\* The `free` of new_external_typed_data_with_drop: Box::from_raw(*ptr) and
\* drop.
with_drop_free(mem) == [data |-> Release(mem.data), peer |-> mem.peer]

FinInit ==
    /\ fin_mem = [data |-> "none", peer |-> "none"]
    /\ fin_ctor = [name |-> "none"]
    /\ fin_handle = None
    /\ fin_runs = 0

\* TypedDataArray::<T>::create(data); the descriptor then reaches the host
\* in a posted message, and the host keeps the callback.
Call_TypedDataArray_create ==
    \E T \in TypedDataTypes, data \in DataVectors :
        /\ fin_ctor.name = "none"
        /\ fin_mem' = LeakDataAndPeer(data)
        /\ fin_ctor' = [name |-> "create", T |-> T, data |-> data]
        /\ fin_handle' = Some([callback |-> "create_free"])
        /\ UNCHANGED fin_runs
        /\ FinFrame

\* UnverifiedDartHandle::new_external_typed_data_with_drop(values): the host
\* answers Dart_NewExternalTypedDataWithFinalizer with a handle, and
\* Self::new(handle).get_error() is returned.
Call_new_external_typed_data_with_drop ==
    \E T \in TypedDataTypes, values \in DataVectors, handle \in HostResults :
        /\ fin_ctor.name = "none"
        /\ handle # NullRaw
        /\ fin_mem' = LeakDataAndPeer(values)
        /\ fin_ctor' = [name |-> "new_external_typed_data_with_drop", T |-> T,
                        data |-> values, ret |-> new_get_error(handle)]
        /\ fin_handle' = IF handle.isError THEN None
                         ELSE Some([callback |-> "with_drop_free"])
        /\ UNCHANGED fin_runs
        /\ FinFrame

\* The host collects the buffer and runs its finalizer, once.
Host_finalize ==
    /\ fin_handle.tag = "Some"
    /\ fin_runs = 0
    /\ fin_mem' = IF fin_handle.value.callback = "create_free"
                  THEN create_free(fin_mem)
                  ELSE with_drop_free(fin_mem)
    /\ fin_runs' = fin_runs + 1
    /\ UNCHANGED <<fin_ctor, fin_handle>>
    /\ FinFrame

FinNext ==
    \/ Call_TypedDataArray_create \/ Call_new_external_typed_data_with_drop
    \/ Host_finalize

\* C26: after one run of the finalizer that either constructor registered,
\* every allocation made at creation, the data block and the boxed peer, has
\* been released.
C26_FinalizerReleasesAll ==
    fin_runs = 1 => (fin_mem.data # "live" /\ fin_mem.peer # "live")

(***************************************************************************)
(* dart_types/list.rs: ListLike::slice, slice_mut, ListView, ListViewMut   *)
(*                                                                         *)
(* A Dart list of the host is a sequence; its element at index j is        *)
(* lv_list[j + 1].  A view is [kind, start, cached_items].  Only one view  *)
(* is followed, from slice or slice_mut to its drop.                       *)
(***************************************************************************)
\* std::ops::Bound<usize>.
Bounds ==
    {[kind |-> "Unbounded"]}
    \cup {[kind |-> k, x |-> n] : k \in {"Included", "Excluded"}, n \in 0..MaxListLen}

\* The values of a RangeBounds<usize>.
RangeBoundsValues == [start : Bounds, end : Bounds]

\* What a caller stores through the reference index_mut returned.
StoredValue == 10

\* The start and len that slice and slice_mut compute.  The subtractions
\* are on usize: below zero they panic in a build with overflow checks and
\* wrap in one without, where the length near 2^64 then fails in collect().
slice_bounds(slice, len) ==
    LET start == CASE slice.start.kind = "Unbounded" -> 0
                   [] slice.start.kind = "Included"  -> slice.start.x
                   [] slice.start.kind = "Excluded"  -> slice.start.x + 1
        end == CASE slice.end.kind = "Unbounded" -> len - 1
                 [] slice.end.kind = "Included"  -> slice.end.x
                 [] slice.end.kind = "Excluded"  -> slice.end.x - 1
    IN  IF end < 0 \/ end - start < 0
        THEN [exit |-> "panic"]
        ELSE [exit |-> "return", start |-> start, len |-> end - start]

\* ListView::new and ListViewMut::new: len empty cache slots.
ListView_new(kind, start, len) ==
    [kind |-> kind, start |-> start,
     cached_items |-> [i \in 1..len |-> [tag |-> "None"]]]

\* ListLike::slice and slice_mut.
slice(kind, list, range) ==
    LET b == slice_bounds(range, Len(list))
    IN  IF b.exit = "panic" THEN [exit |-> "panic"]
        ELSE [exit |-> "return", view |-> ListView_new(kind, b.start, b.len)]

\* List::get_at: op_idx on the host's list.
List_get_at(list, idx) ==
    IF idx < Len(list) THEN [tag |-> "Ok", value |-> list[idx + 1]] ELSE [tag |-> "Err"]

\* List::set_at: op_idx_assign on the host's list.
List_set_at(list, idx, item) ==
    IF idx < Len(list)
    THEN [tag |-> "Ok", list |-> [list EXCEPT ![idx + 1] = item]]
    ELSE [tag |-> "Err", list |-> list]

\* <ListViewMut as ListLike>::get_at: self.list.get_at(idx).
ListViewMut_get_at(view, list, idx) ==
    [at |-> idx, ret |-> List_get_at(list, idx)]

\* <ListViewMut as ListLike>::set_at: self.list.set_at(idx, item).
ListViewMut_set_at(view, list, idx, item) ==
    [at |-> idx, ret |-> List_set_at(list, idx, item)]

\* Index::index of ListView and ListViewMut, and IndexMut::index_mut with
\* fill = "PossiblyModified": an empty slot is filled from
\* get_at(idx + self.start); make_mut turns Read into PossiblyModified.
view_index(view, list, idx, fill) ==
    IF idx >= Len(view.cached_items)
    THEN [exit |-> "panic", view |-> view]                  \* slice index out of range
    ELSE LET item == view.cached_items[idx + 1]
             got == List_get_at(list, idx + view.start)
         IN  IF item.tag = "None" /\ got.tag = "Err"
             THEN [exit |-> "propagate_error", view |-> view, at |-> idx + view.start]
             ELSE LET x == IF item.tag = "None" THEN got.value ELSE item.x
                      tag == IF fill = "PossiblyModified" THEN "PossiblyModified"
                             ELSE IF item.tag = "None" THEN fill
                             ELSE item.tag
                  IN  [exit |-> "return", ret |-> x, at |-> idx + view.start,
                       view |-> [view EXCEPT !.cached_items[idx + 1] =
                                    [tag |-> tag, x |-> x]]]

RECURSIVE drop_writes_skipping_first(_, _, _)
\* A variant of drop_writes that does not write the first slot of the view.
drop_writes_skipping_first(view, list, idx) ==
    IF idx >= Len(view.cached_items)
    THEN [list |-> list, writes |-> <<>>]
    ELSE LET item == view.cached_items[idx + 1]
             w == IF item.tag = "PossiblyModified" /\ idx > 0
                  THEN List_set_at(list, idx + view.start, item.x).list
                  ELSE list
             rest == drop_writes_skipping_first(view, w, idx + 1)
         IN  [list |-> rest.list,
              writes |-> (IF item.tag = "PossiblyModified" /\ idx > 0
                          THEN <<[at |-> idx + view.start, x |-> item.x]>>
                          ELSE <<>>) \o rest.writes]

RECURSIVE drop_writes(_, _, _)
\* <ListViewMut as Drop>::drop from slot idx on: every PossiblyModified slot
\* is written with set_at(idx + self.start, x.clone()).
drop_writes(view, list, idx) ==
    IF idx >= Len(view.cached_items)
    THEN [list |-> list, writes |-> <<>>]
    ELSE LET item == view.cached_items[idx + 1]
             w == IF item.tag = "PossiblyModified"
                  THEN List_set_at(list, idx + view.start, item.x).list
                  ELSE list
             rest == drop_writes(view, w, idx + 1)
         IN  [list |-> rest.list,
              writes |-> (IF item.tag = "PossiblyModified"
                          THEN <<[at |-> idx + view.start, x |-> item.x]>>
                          ELSE <<>>) \o rest.writes]

\* The component at rest, in the specifications of the other components.
ListIdle ==
    /\ lv_list = <<>>
    /\ lv_view = [kind |-> "none"]
    /\ lv_touched = {}
    /\ lv_writes = <<>>
    /\ lv_op = [op |-> "none"]

\* The lists of the host: the element at index j is j.
ListInit ==
    /\ lv_list \in {[i \in 1..n |-> i - 1] : n \in (MaxListLen - 1)..MaxListLen}
    /\ lv_view = [kind |-> "none"]
    /\ lv_touched = {}
    /\ lv_writes = <<>>
    /\ lv_op = [op |-> "none"]

\* list.slice(range).
Call_slice ==
    \E range \in RangeBoundsValues :
        LET r == slice("ListView", lv_list, range)
        IN  /\ lv_view.kind = "none"
            /\ lv_view' = IF r.exit = "return" THEN r.view ELSE lv_view
            /\ lv_op' = [op |-> "slice", range |-> range, exit |-> r.exit]
            /\ UNCHANGED <<lv_list, lv_touched, lv_writes>>
            /\ ListFrame

\* list.slice_mut(range).
Call_slice_mut ==
    \E range \in RangeBoundsValues :
        LET r == slice("ListViewMut", lv_list, range)
        IN  /\ lv_view.kind = "none"
            /\ lv_view' = IF r.exit = "return" THEN r.view ELSE lv_view
            /\ lv_op' = [op |-> "slice_mut", range |-> range, exit |-> r.exit]
            /\ UNCHANGED <<lv_list, lv_touched, lv_writes>>
            /\ ListFrame

\* view[idx] on either view.
Call_view_index ==
    \E idx \in 0..MaxListLen :
        LET r == view_index(lv_view, lv_list, idx,
                            IF lv_view.kind = "ListViewMut" THEN "Read" ELSE "Some")
        IN  /\ lv_view.kind \in {"ListView", "ListViewMut"}
            /\ lv_view' = r.view
            /\ lv_op' = [op |-> "index", idx |-> idx] @@ [r EXCEPT !.view = "view"]
            /\ UNCHANGED <<lv_list, lv_touched, lv_writes>>
            /\ ListFrame

\* view[idx] = x, or &mut view[idx] left as it was, on a ListViewMut.
Call_view_index_mut ==
    \E idx \in 0..MaxListLen, store \in BOOLEAN :
        LET r == view_index(lv_view, lv_list, idx, "PossiblyModified")
        IN  /\ lv_view.kind = "ListViewMut"
            /\ lv_view' = IF r.exit = "return" /\ store
                          THEN [r.view EXCEPT !.cached_items[idx + 1].x = StoredValue]
                          ELSE r.view
            /\ lv_touched' = IF r.exit = "return" THEN lv_touched \cup {idx}
                             ELSE lv_touched
            /\ lv_op' = [op |-> "index_mut", idx |-> idx] @@ [r EXCEPT !.view = "view"]
            /\ UNCHANGED <<lv_list, lv_writes>>
            /\ ListFrame

\* view.get_at(idx) through ListLike on a ListViewMut.
Call_view_get_at ==
    \E idx \in 0..MaxListLen :
        LET r == ListViewMut_get_at(lv_view, lv_list, idx)
        IN  /\ lv_view.kind = "ListViewMut"
            /\ lv_op' = [op |-> "get_at", idx |-> idx, at |-> r.at, ret |-> r.ret]
            /\ UNCHANGED <<lv_list, lv_view, lv_touched, lv_writes>>
            /\ ListFrame

\* view.set_at(idx, item) through ListLike on a ListViewMut.
Call_view_set_at ==
    \E idx \in 0..MaxListLen :
        LET r == ListViewMut_set_at(lv_view, lv_list, idx, StoredValue)
        IN  /\ lv_view.kind = "ListViewMut"
            /\ lv_list' = r.ret.list
            /\ lv_op' = [op |-> "set_at", idx |-> idx, at |-> r.at, ret |-> r.ret.tag]
            /\ UNCHANGED <<lv_view, lv_touched, lv_writes>>
            /\ ListFrame

\* The view goes out of scope: a ListView has no Drop, a ListViewMut writes
\* its PossiblyModified slots back.
Drop_view ==
    /\ lv_view.kind \in {"ListView", "ListViewMut"}
    /\ LET r == IF lv_view.kind = "ListViewMut"
                THEN drop_writes(lv_view, lv_list, 0)
                ELSE [list |-> lv_list, writes |-> <<>>]
       IN  /\ lv_list' = r.list
           /\ lv_writes' = r.writes
    /\ lv_view' = [lv_view EXCEPT !.kind = "dropped " \o lv_view.kind]
    /\ lv_op' = [op |-> "drop"]
    /\ UNCHANGED lv_touched
    /\ ListFrame

\* A view is made, indexed and dropped.
ListNext ==
    \/ Call_slice \/ Call_slice_mut \/ Call_view_index \/ Call_view_index_mut
    \/ Drop_view

\* A ListViewMut is made and used through Index, IndexMut and ListLike.
ListLikeNext ==
    \/ Call_slice_mut \/ Call_view_index \/ Call_view_index_mut
    \/ Call_view_get_at \/ Call_view_set_at

\* Whether a range holds the index i.
InRange(range, i) ==
    /\ CASE range.start.kind = "Unbounded" -> TRUE
         [] range.start.kind = "Included"  -> range.start.x <= i
         [] range.start.kind = "Excluded"  -> range.start.x < i
    /\ CASE range.end.kind = "Unbounded" -> TRUE
         [] range.end.kind = "Included"  -> i <= range.end.x
         [] range.end.kind = "Excluded"  -> i < range.end.x

\* The indices of a list of the given length that a range covers.
CoveredIndices(range, len) == {i \in 0..(len - 1) : InRange(range, i)}

\* Whether a range lies within a list of the given length: its bounds name
\* no index past the end.
WithinList(range, len) ==
    /\ range.start.kind = "Included" => range.start.x <= len
    /\ range.start.kind = "Excluded" => range.start.x < len
    /\ range.end.kind = "Included" => range.end.x < len
    /\ range.end.kind = "Excluded" => range.end.x <= len

\* C27: slice and slice_mut over a range within the list return a view
\* whose length is the number of indices the range covers (b - a for a..b,
\* b - a + 1 for a..=b, up to len() for an unbounded end) and whose index i
\* stands for the i-th covered index of the list.
C27_SliceCoversRange ==
    (/\ lv_op.op \in {"slice", "slice_mut"}
     /\ WithinList(lv_op.range, Len(lv_list))
     /\ CoveredIndices(lv_op.range, Len(lv_list)) # {}) =>
        /\ lv_op.exit = "return"
        /\ Len(lv_view.cached_items)
               = Cardinality(CoveredIndices(lv_op.range, Len(lv_list)))
        /\ \A i \in CoveredIndices(lv_op.range, Len(lv_list)) :
               i - lv_view.start \in 0..(Len(lv_view.cached_items) - 1)

\* C28: when a ListViewMut is dropped, the elements written back are
\* exactly those that index_mut handed out: each once, at start + idx, with
\* the value its cache slot holds; every other element of the list is left
\* as it was.
C28_DropWritesBackTouched ==
    [][(lv_view.kind = "ListViewMut" /\ lv_view'.kind = "dropped ListViewMut") =>
          /\ {lv_writes'[k].at : k \in 1..Len(lv_writes')}
                 = {lv_view.start + i : i \in lv_touched}
          /\ Len(lv_writes') = Cardinality(lv_touched)
          /\ \A k \in 1..Len(lv_writes') :
                 lv_writes'[k].x
                     = lv_view.cached_items[lv_writes'[k].at - lv_view.start + 1].x
          /\ \A j \in 0..(Len(lv_list) - 1) :
                 lv_list'[j + 1] =
                     IF j - lv_view.start \in lv_touched
                     THEN lv_view.cached_items[j - lv_view.start + 1].x
                     ELSE lv_list[j + 1]]_vars

\* A view that starts at 1 was read at slot 0 and stored to at slot 1, and
\* its drop wrote the stored value to element 2 only.
C28_Witness ==
    /\ lv_view.kind = "dropped ListViewMut"
    /\ lv_view.start = 1
    /\ Len(lv_view.cached_items) = 2
    /\ lv_view.cached_items[1].tag = "Read"
    /\ lv_touched = {1}
    /\ lv_writes = <<[at |-> 2, x |-> StoredValue]>>
    /\ lv_list = <<0, 1, StoredValue>>

\* C29: on a ListViewMut that starts at `start`, get_at(i) and set_at(i, x)
\* address the element that index and index_mut address at i: start + i.
C29_GetSetAddressViewElement ==
    (/\ lv_view.kind = "ListViewMut"
     /\ lv_op.op \in {"get_at", "set_at", "index", "index_mut"}
     /\ lv_op.idx < Len(lv_view.cached_items)
     /\ "at" \in DOMAIN lv_op) =>
        lv_op.at = lv_view.start + lv_op.idx

(***************************************************************************)
(* dart_types/integer.rs: Integer and its Mul impls                        *)
(*                                                                         *)
(* An Integer is [handle, value]: the i64 the host holds behind the handle *)
(* and the cached copy, Some for an Integer made by Integer::new and None  *)
(* for one made from a handle.  The operands are small, so every product   *)
(* fits an i64 and no overflow arises.                                     *)
(***************************************************************************)
Operands == (0 - MaxOperand)..MaxOperand

\* Integer::new(value) and Integer::from_handle(handle).
Integers ==
    {[handle |-> v, value |-> Some(v)] : v \in Operands}
    \cup {[handle |-> v, value |-> None] : v \in Operands}

\* Integer::value: the cached value, or get_i64 of the handle.
value(self) == IF self.value.tag = "Some" THEN self.value.value ELSE self.handle

\* <Integer as Mul<Self>>::mul: self.value() + rhs.value().
mul_Integer_Integer(self, rhs) == value(self) + value(rhs)

\* <Integer as Mul<i64>>::mul: self.value() * rhs.
mul_Integer_i64(self, rhs) == value(self) * rhs

\* <i64 as Mul<Integer>>::mul: rhs.value() * self.
mul_i64_Integer(self, rhs) == value(rhs) * self

IntIdle ==
    /\ int_lhs = 0
    /\ int_rhs = 0
    /\ int_op = [op |-> "none"]

\* The two operands of a multiplication.
IntInit ==
    /\ int_lhs \in Operands
    /\ int_rhs \in Operands
    /\ int_op = [op |-> "none"]

\* Integer * Integer.
Call_mul_Integer_Integer ==
    \E self \in Integers, rhs \in Integers :
        /\ value(self) = int_lhs
        /\ value(rhs) = int_rhs
        /\ int_op' = [op |-> "Integer * Integer", self |-> self, rhs |-> rhs,
                      ret |-> mul_Integer_Integer(self, rhs)]
        /\ UNCHANGED <<int_lhs, int_rhs>>
        /\ IntFrame

\* Integer * i64.
Call_mul_Integer_i64 ==
    \E self \in Integers :
        /\ value(self) = int_lhs
        /\ int_op' = [op |-> "Integer * i64", self |-> self, rhs |-> int_rhs,
                      ret |-> mul_Integer_i64(self, int_rhs)]
        /\ UNCHANGED <<int_lhs, int_rhs>>
        /\ IntFrame

\* i64 * Integer.
Call_mul_i64_Integer ==
    \E rhs \in Integers :
        /\ value(rhs) = int_rhs
        /\ int_op' = [op |-> "i64 * Integer", self |-> int_lhs, rhs |-> rhs,
                      ret |-> mul_i64_Integer(int_lhs, rhs)]
        /\ UNCHANGED <<int_lhs, int_rhs>>
        /\ IntFrame

IntNext ==
    Call_mul_Integer_Integer \/ Call_mul_Integer_i64 \/ Call_mul_i64_Integer

\* C30: for operands whose product fits an i64, Integer * Integer returns
\* the arithmetic product of the two values, the same as Integer * i64 and
\* i64 * Integer return for them.
C30_MulIsProduct ==
    int_op.op \in {"Integer * Integer", "Integer * i64", "i64 * Integer"} =>
        int_op.ret = int_lhs * int_rhs

(***************************************************************************)
(* Specifications                                                          *)
(***************************************************************************)
Init ==
    HandleInit /\ PortInit /\ RegInit /\ LoaderInit /\ ConcInit /\ CoIdle /\ DispInit
    /\ AsyncInit /\ BufInit /\ HandlerInit /\ TdInit /\ FinInit /\ ListIdle /\ IntIdle

SpecHandle == Init /\ [][HandleNext]_vars

SpecPort == Init /\ [][PortNext]_vars

SpecRegister == Init /\ [][RegNext]_vars

SpecInit == Init /\ [][InitNext]_vars

SpecConc == Init /\ [][ConcNext]_vars

SpecHandler == Init /\ [][HandlerNext]_vars

SpecTypedData == Init /\ [][TdNext]_vars

SpecFinalizer == Init /\ [][FinNext]_vars

InitList ==
    HandleInit /\ PortInit /\ RegInit /\ LoaderInit /\ ConcInit /\ CoIdle /\ DispInit
    /\ AsyncInit /\ BufInit /\ HandlerInit /\ TdInit /\ FinInit /\ ListInit /\ IntIdle

SpecList == InitList /\ [][ListNext]_vars

SpecListLike == InitList /\ [][ListLikeNext]_vars

InitInteger ==
    HandleInit /\ PortInit /\ RegInit /\ LoaderInit /\ ConcInit /\ CoIdle /\ DispInit
    /\ AsyncInit /\ BufInit /\ HandlerInit /\ TdInit /\ FinInit /\ ListIdle /\ IntInit

SpecInteger == InitInteger /\ [][IntNext]_vars

InitCObject ==
    HandleInit /\ PortInit /\ RegInit /\ LoaderInit /\ ConcInit /\ CoInit /\ DispInit
    /\ AsyncInit /\ BufInit /\ HandlerInit /\ TdInit /\ FinInit /\ ListIdle /\ IntIdle

SpecCObject == InitCObject /\ [][CoNext]_vars

InitFromHost ==
    HandleInit /\ PortInit /\ RegInit /\ LoaderInit /\ ConcInit /\ FromHostInit /\ DispInit
    /\ AsyncInit /\ BufInit /\ HandlerInit /\ TdInit /\ FinInit /\ ListIdle /\ IntIdle

SpecFromHost == InitFromHost /\ [][FromHostNext]_vars

SpecDispatch == Init /\ [][DispNext]_vars

SpecAsync == Init /\ [][AsyncNext]_vars

SpecBuffer == Init /\ [][BufNext]_vars

====
